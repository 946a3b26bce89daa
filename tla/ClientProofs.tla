---- MODULE ClientProofs ----
(***************************************************************************)
(* Proofs about the Client's qualification pipeline, and from them and     *)
(* ProbeProofs what holds of the two pipelines together.                   *)
(***************************************************************************)
EXTENDS ProbeProofs

-----------------------------------------------------------------------------
(* The Client's pipeline *)

ClientPlaces == {"options", "graphics", "wait", "join", "shutdown", "exit"}
StreamPlaces == {"off", "idle", "check", "sleep", "present", "ended"}
PresenterPlaces == {"none", "check", "sleep", "taken", "present", "drain", "gone"}
PresentStages == {"none", "admit", "check", "import", "roundtrip", "feedback"}
Numbers == Nat \ {0}
Codes == -1..4
SetupDone == 0..Len(GraphicsSetup) + 1
Samples == [frame : Numbers, stamp : Numbers]

\* The types, in parts.
ClientMainType ==
    cl \in [opt : ClientOptions, pc : ClientPlaces, code : Codes,
            step : SetupDone, eos : BOOLEAN]
StreamType ==
    stream \in [fed : Nat, inside : Seq(Numbers), pc : StreamPlaces, sample : Seq(Samples),
                queued : Nat]
StoppingType == stopping \in [done : BOOLEAN, stop : BOOLEAN, failed : BOOLEAN]
PresenterType ==
    presenter \in [pc : PresenterPlaces, stage : PresentStages, sample : Seq(Samples)]
SamplesType ==
    /\ stamps \in Seq(Numbers) /\ ready \in Seq(Samples) /\ Len(ready) <= 1
    /\ flight \in Seq(Samples) /\ shown \in Seq(Samples)
    /\ alive \subseteq Numbers /\ bus \in {"none", "eos", "error"}
ClientType == ClientMainType /\ StreamType /\ StoppingType /\ PresenterType /\ SamplesType

\* The streaming thread holds a sample of its own, and the presenter one it has not yet
\* committed to the compositor.
Holds == stream.pc \in {"check", "sleep"}
Fresh == presenter.pc = "taken" \/ presenter.stage \in {"admit", "check", "import"}

\* Where each thread may be, by what the others are doing.
ClientStart ==
    cl.pc \in {"options", "graphics"} =>
      /\ cl.code = -1 /\ ~cl.eos /\ bus = "none"
      /\ stream.pc = "off" /\ stream.fed = 0 /\ stream.queued = 0 /\ stream.inside = <<>>
      /\ presenter.pc = "none" /\ presenter.stage = "none"
      /\ stamps = <<>> /\ ready = <<>> /\ flight = <<>> /\ shown = <<>> /\ alive = {}
      /\ ~stopping.done /\ ~stopping.stop /\ ~stopping.failed
ClientMiddle ==
    /\ cl.pc = "graphics" => ClientOptionsValid(cl.opt)
    /\ cl.pc \in {"wait", "join"} =>
         cl.code = -1 /\ stream.pc # "off" /\ ClientOptionsValid(cl.opt)
    /\ cl.pc = "shutdown" => ClientOptionsValid(cl.opt)
    /\ cl.pc = "wait" => ~stopping.done /\ ~cl.eos
    /\ cl.pc \in {"shutdown", "exit"} =>
         stream.pc = "off" /\ presenter.stage = "none" /\ presenter.pc \in {"none", "gone"}
StreamPlace ==
    /\ Holds => Threaded(cl.opt) /\ Len(stream.sample) = 1
    /\ stream.pc = "present" => ~Threaded(cl.opt)
    /\ bus # "none" => stream.pc \in {"ended", "off"}
    /\ stream.pc # "off" => stamps = stream.inside
PresenterPlace ==
    /\ Threaded(cl.opt) /\ cl.pc \in {"wait", "join"} => presenter.pc # "none"
    /\ ~Threaded(cl.opt) => ready = <<>> /\ presenter.pc = "none" /\ ~stopping.stop /\ ~stopping.done
    /\ presenter.stage # "none" =>
         /\ Threaded(cl.opt) => presenter.pc = "present"
         /\ ~Threaded(cl.opt) => stream.pc = "present"
    /\ presenter.pc = "present" \/ stream.pc = "present" => presenter.stage # "none"
    /\ presenter.pc = "drain" \/ presenter.stage = "roundtrip" => Async(cl.opt)
    /\ IF presenter.pc = "taken" \/ presenter.stage # "none" THEN Len(presenter.sample) = 1
                                                             ELSE presenter.sample = <<>>
Stopped ==
    /\ stopping.done => bus # "none"
    /\ presenter.pc \in {"drain", "gone"} => stopping.stop \/ stopping.done
    /\ stopping.stop /\ ~stopping.failed => cl.pc # "wait" /\ ~cl.eos

\* Frames in flight: at most the limit, and in the serial and threaded modes only the
\* one that is being waited for.
FlightRoom ==
    /\ Async(cl.opt) /\ cl.pc \notin {"options", "exit"} =>
         /\ Len(flight) <= Limit
         /\ presenter.stage \in {"check", "import"} => Len(flight) < Limit
    /\ ~Async(cl.opt) => Len(flight) = (IF presenter.stage = "feedback" THEN 1 ELSE 0)
    /\ presenter.stage = "feedback" => ~Async(cl.opt)

\* What is left behind is a failure.
LeftBehind ==
    /\ presenter.pc \in {"drain", "gone"} /\ ready # <<>> => stopping.failed
    /\ presenter.pc = "gone" /\ flight # <<>> => stopping.failed
    /\ cl.pc \in {"shutdown", "exit"} =>
         /\ stopping.failed => cl.code # 0
         /\ presenter.pc = "none" => ready = <<>> /\ flight = <<>>

\* The number the next sample has at least, at each place a sample passes.
InMark == IF stream.inside = <<>> THEN stream.fed + 1 ELSE stream.inside[1]
StreamMark == IF Holds THEN stream.sample[1].frame ELSE InMark
ReadyMark == IF ready = <<>> THEN StreamMark ELSE ready[1].frame
FreshMark == IF Fresh THEN presenter.sample[1].frame ELSE ReadyMark
FlightMark == IF flight = <<>> THEN FreshMark ELSE flight[1].frame

\* The samples are in order, from the decoder to the screen.
InsideOrder ==
    /\ \A i \in 1..Len(stream.inside) : stream.inside[i] <= stream.fed
    /\ \A i, j \in 1..Len(stream.inside) : i < j => stream.inside[i] < stream.inside[j]
HandsOrder ==
    /\ Holds => stream.sample[1].frame < InMark
    /\ ready # <<>> => ready[1].frame < StreamMark
    /\ Fresh => presenter.sample[1].frame < ReadyMark
Committed ==
    presenter.stage \in {"roundtrip", "feedback"} => presenter.sample[1].frame < ReadyMark
FlightOrder ==
    /\ \A i \in 1..Len(flight) : flight[i].frame < FreshMark
    /\ \A i, j \in 1..Len(flight) : i < j => flight[i].frame < flight[j].frame
ShownOrder ==
    /\ \A i \in 1..Len(shown) : i <= shown[i].frame /\ shown[i].frame < FlightMark
    /\ \A i, j \in 1..Len(shown) :
         i < j => shown[i].frame < shown[j].frame /\ shown[i].frame - i <= shown[j].frame - j

\* Every sample carries its own stamp.
Stamped(samples) == \A i \in 1..Len(samples) : samples[i].stamp = samples[i].frame
ClientStamps ==
    /\ Holds => Stamped(stream.sample)
    /\ Stamped(ready) /\ Stamped(presenter.sample) /\ Stamped(flight) /\ Stamped(shown)

\* The samples that exist are those in somebody's hands.
Held(samples) == {samples[i].frame : i \in 1..Len(samples)}
ClientAlive ==
    alive = Held(ready) \cup Held(presenter.sample)
              \cup (IF Holds THEN Held(stream.sample) ELSE {})

\* As long as nothing has failed no frame is missing.
Counted ==
    cl.pc \notin {"shutdown", "exit"} /\ ~stopping.failed =>
      /\ \A i \in 1..Len(stream.inside) :
           stream.inside[i] = stream.fed - Len(stream.inside) + i
      /\ ~stopping.stop =>
           stream.fed - Len(stream.inside) = stream.queued + (IF Holds THEN 1 ELSE 0)
      /\ ~Threaded(cl.opt) =>
           stream.queued = Len(shown) + (IF stream.pc = "present" THEN 1 ELSE 0)
QueuedEnough ==
    Threaded(cl.opt) /\ cl.pc \notin {"options", "exit"} =>
      /\ stream.queued <= cl.opt.frames
      /\ stream.pc \in {"idle", "check", "sleep"} => stream.queued < cl.opt.frames
Passed ==
    cl.code = 0 =>
      /\ cl.pc \in {"shutdown", "exit"}
      /\ shown = [i \in 1..cl.opt.frames |-> [frame |-> i, stamp |-> i]]

\* Every graphics object was made from objects that exist, and shutdown_graphics knows it,
\* or is one of the few it cannot know.
GraphicsNest ==
    \A g \in graphics :
      /\ GraphicsNeeds(g) \subseteq graphics
      /\ g \in Leftovers \/ \E i \in 1..17 : GraphicsRelease[i] = g
\* What n steps of initialize_graphics have put there for certain.
Optional == Globals \cup EglObjects \cup Dependent
Made(there, n) ==
    /\ \A i \in 1..17 : i <= n => GraphicsSetup[i] \in there \cup Optional
    /\ n >= 7 => Checked("surface") \subseteq there
    /\ n >= 16 => EglObjects \subseteq there
GraphicsMade == Made(graphics, cl.step)
\* Why there is something that shutdown_graphics cannot know.
LeftWhy ==
    graphics \cap Leftovers # {} =>
      /\ cl.pc \notin {"options", "graphics"}
      /\ cl.code = 3 \/ (stopping.failed /\ cl.code # 0)
GraphicsHeld ==
    /\ cl.pc = "options" => graphics = {} /\ cl.step = 0
    /\ cl.pc = "graphics" => GraphicsMade
    /\ GraphicsNest /\ LeftWhy
    /\ cl.pc = "exit" => graphics \subseteq Leftovers

ClientInv ==
    /\ ClientType /\ ClientStart /\ ClientMiddle /\ StreamPlace /\ PresenterPlace /\ Stopped
    /\ FlightRoom /\ LeftBehind /\ InsideOrder /\ HandsOrder /\ Committed /\ FlightOrder
    /\ ShownOrder /\ ClientStamps /\ ClientAlive /\ Counted /\ QueuedEnough /\ Passed /\ GraphicsHeld

\* The objects initialize_graphics makes, one by one.
LEMMA GraphicsSetupIs ==
    /\ Len(GraphicsSetup) = 17
    /\ GraphicsSetup[1] = "display" /\ GraphicsSetup[2] = "timing_manager"
    /\ GraphicsSetup[3] = "fifo_manager" /\ GraphicsSetup[4] = "compositor"
    /\ GraphicsSetup[5] = "wm_base" /\ GraphicsSetup[6] = "presentation"
    /\ GraphicsSetup[7] = "surface" /\ GraphicsSetup[8] = "timer" /\ GraphicsSetup[9] = "fifo"
    /\ GraphicsSetup[10] = "xdg_surface" /\ GraphicsSetup[11] = "toplevel"
    /\ GraphicsSetup[12] = "egl_display" /\ GraphicsSetup[13] = "window"
    /\ GraphicsSetup[14] = "egl_surface" /\ GraphicsSetup[15] = "context"
    /\ GraphicsSetup[16] = "program" /\ GraphicsSetup[17] = "vertex_array"
BY DEF GraphicsSetup

\* The names of the places are places.
LEMMA PlaceNames ==
    /\ "options" \in ClientPlaces /\ "graphics" \in ClientPlaces /\ "wait" \in ClientPlaces
    /\ "join" \in ClientPlaces /\ "shutdown" \in ClientPlaces /\ "exit" \in ClientPlaces
    /\ "off" \in StreamPlaces /\ "idle" \in StreamPlaces /\ "check" \in StreamPlaces
    /\ "sleep" \in StreamPlaces /\ "present" \in StreamPlaces /\ "ended" \in StreamPlaces
    /\ "none" \in PresenterPlaces /\ "check" \in PresenterPlaces /\ "sleep" \in PresenterPlaces
    /\ "taken" \in PresenterPlaces /\ "present" \in PresenterPlaces
    /\ "drain" \in PresenterPlaces /\ "gone" \in PresenterPlaces
    /\ "none" \in PresentStages /\ "admit" \in PresentStages /\ "check" \in PresentStages
    /\ "import" \in PresentStages /\ "roundtrip" \in PresentStages
    /\ "feedback" \in PresentStages
BY DEF ClientPlaces, StreamPlaces, PresenterPlaces, PresentStages

\* The exit codes, and how far the set-up can be.
LEMMA CodesAre ==
    /\ -1 \in Codes /\ 0 \in Codes /\ 1 \in Codes /\ 2 \in Codes /\ 3 \in Codes /\ 4 \in Codes
    /\ \A s \in SetupDone : s # Len(GraphicsSetup) + 1 => s + 1 \in SetupDone
    /\ \A s \in SetupDone : s < Len(GraphicsSetup) => s + 1 \in SetupDone
BY GraphicsSetupIs DEF Codes, SetupDone

\* Every step keeps the types, part by part.
LEMMA ClientMainTypeNext ==
    ASSUME ClientMainType, [ClientNext]_clientVars
    PROVE  ClientMainType'
<1> USE PlaceNames, CodesAre, GraphicsSetupIs DEF mainOnly, ClientMainType
<1>1. CASE ClientParse
  BY <1>1 DEF ClientParse
<1>2. CASE PopMessage
  BY <1>2 DEF PopMessage, Woken
<1>3. CASE ShutdownGraphics
  BY <1>3 DEF ShutdownGraphics
<1>4. CASE OnNewSample
  BY <1>4 DEF OnNewSample
<1>5. CASE PutReady
  BY <1>5 DEF PutReady, Woken, Returned
<1>6. CASE TakeReady
  BY <1>6 DEF TakeReady, Woken, WorkerEnds
<1>7. CASE AnnounceTaken
  BY <1>7 DEF AnnounceTaken, Woken
<1>8. CASE DispatchFails
  BY <1>8 DEF DispatchFails, Processed, WorkerEnds, Woken, Returned, Recorded
<1>9. CASE DrainAsyncFeedback
  BY <1>9 DEF DrainAsyncFeedback
<1>10. ASSUME NEW outcome \in Outcomes, InitializeGraphics(outcome) PROVE ClientMainType'
  BY <1>10, ZenonT(60) DEF InitializeGraphics
<1>11. ASSUME NEW ok \in BOOLEAN, EstablishPhase(ok) PROVE ClientMainType'
  BY <1>11 DEF EstablishPhase
<1>12. ASSUME NEW ok \in BOOLEAN, StartPlaying(ok) PROVE ClientMainType'
  BY <1>12, ZenonT(60) DEF StartPlaying
<1>13. ASSUME NEW ok \in BOOLEAN, JoinAndStop(ok) PROVE ClientMainType'
  BY <1>13 DEF JoinAndStop
<1>14. ASSUME NEW ok \in BOOLEAN, OnDecoderInput(ok) PROVE ClientMainType'
  BY <1>14 DEF OnDecoderInput
<1>15. ASSUME NEW ok \in BOOLEAN, Admit(ok) PROVE ClientMainType'
  BY <1>15 DEF Admit, Processed, WorkerEnds, Woken, Returned, Recorded
<1>16. ASSUME NEW ok \in BOOLEAN, CheckSample(ok) PROVE ClientMainType'
  BY <1>16 DEF CheckSample, Processed, WorkerEnds, Woken, Returned, Recorded
<1>17. ASSUME NEW ok \in BOOLEAN, ImportAndPresent(ok) PROVE ClientMainType'
  BY <1>17 DEF ImportAndPresent, Processed, WorkerEnds, Woken, Returned, Recorded
<1>18. ASSUME NEW ok \in BOOLEAN, Roundtrip(ok) PROVE ClientMainType'
  BY <1>18 DEF Roundtrip, Processed, WorkerEnds, Woken, Returned, Recorded
<1>19. ASSUME NEW how \in {"eos", "error"}, StreamEnds(how) PROVE ClientMainType'
  BY <1>19 DEF StreamEnds
<1>20. ASSUME NEW feedback \in Feedbacks, OnFeedback(feedback) PROVE ClientMainType'
  BY <1>20 DEF OnFeedback, Processed, WorkerEnds, Woken, Returned, Recorded
<1>21. ASSUME NEW feedback \in Feedbacks, OnAsyncFeedback(feedback) PROVE ClientMainType'
  BY <1>21 DEF OnAsyncFeedback, Recorded
<1>22. CASE UNCHANGED clientVars
  BY <1>22 DEF clientVars
<1> QED
  BY <1>1, <1>2, <1>3, <1>4, <1>5, <1>6, <1>7, <1>8, <1>9, <1>10, <1>11,
     <1>12, <1>13, <1>14, <1>15, <1>16, <1>17, <1>18, <1>19, <1>20, <1>21, <1>22
    DEF ClientNext, ClientMain, Streaming, Presenting

LEMMA EmptyTypes == <<>> \in Seq(Samples) /\ <<>> \in Seq(Numbers) /\ Len(<<>>) <= 1
OBVIOUS

\* What the streaming thread holds.
LEMMA HandTypes ==
    /\ <<>> \in Seq(Samples) /\ <<>> \in Seq(Numbers)
    /\ \A f, t \in Numbers : <<[frame |-> f, stamp |-> t]>> \in Seq(Samples)
    /\ \A n \in Nat : n + 1 \in Nat /\ n + 1 \in Numbers
    /\ \A s \in Seq(Numbers), n \in Numbers : Append(s, n) \in Seq(Numbers)
    /\ \A s \in Seq(Numbers) : s # <<>> => Head(s) \in Numbers /\ Tail(s) \in Seq(Numbers)
<1>1. \A f, t \in Numbers : <<[frame |-> f, stamp |-> t]>> \in Seq(Samples)
  BY DEF Samples
<1>2. \A n \in Nat : n + 1 \in Nat /\ n + 1 \in Numbers
  BY DEF Numbers
<1>3. \A s \in Seq(Numbers), n \in Numbers : Append(s, n) \in Seq(Numbers)
  OBVIOUS
<1>4. \A s \in Seq(Numbers) : s # <<>> => Head(s) \in Numbers /\ Tail(s) \in Seq(Numbers)
  OBVIOUS
<1> QED
  BY <1>1, <1>2, <1>3, <1>4

LEMMA StreamTypeNext ==
    ASSUME StreamType, SamplesType, PresenterType, [ClientNext]_clientVars
    PROVE  StreamType'
<1> USE PlaceNames, HandTypes DEF mainOnly, StreamType
<1>1. CASE ClientParse
  BY <1>1 DEF ClientParse
<1>2. CASE PopMessage
  BY <1>2 DEF PopMessage, Woken
<1>3. CASE ShutdownGraphics
  BY <1>3 DEF ShutdownGraphics
<1>4. CASE OnNewSample
  <2>1. stream.inside # <<>> /\ (stream' = [stream EXCEPT !.inside = Tail(@), !.pc = "ended"]
        \/ /\ stamps # <<>>
           /\ \E p \in {"check", "present"}, q \in {stream.queued, stream.queued + 1} :
                stream' = [stream EXCEPT !.inside = Tail(@), !.queued = q, !.pc = p,
                             !.sample = <<[frame |-> Head(stream.inside),
                                           stamp |-> Head(stamps)]>>])
    BY <1>4 DEF OnNewSample
  <2>2. Head(stream.inside) \in Numbers /\ Tail(stream.inside) \in Seq(Numbers)
    BY <2>1
  <2>3. stamps # <<>> => <<[frame |-> Head(stream.inside), stamp |-> Head(stamps)]>> \in Seq(Samples)
    BY <2>2 DEF SamplesType
  <2> QED
    BY <2>1, <2>2, <2>3, ZenonT(60)
<1>5. CASE PutReady
  BY <1>5 DEF PutReady, Woken, Returned
<1>6. CASE TakeReady
  BY <1>6 DEF TakeReady, Woken, WorkerEnds
<1>7. CASE AnnounceTaken
  BY <1>7 DEF AnnounceTaken, Woken
<1>8. CASE DispatchFails
  BY <1>8 DEF DispatchFails, Processed, WorkerEnds, Woken, Returned, Recorded
<1>9. CASE DrainAsyncFeedback
  BY <1>9 DEF DrainAsyncFeedback
<1>10. ASSUME NEW outcome \in Outcomes, InitializeGraphics(outcome) PROVE StreamType'
  BY <1>10 DEF InitializeGraphics
<1>11. ASSUME NEW ok \in BOOLEAN, EstablishPhase(ok) PROVE StreamType'
  BY <1>11 DEF EstablishPhase
<1>12. ASSUME NEW ok \in BOOLEAN, StartPlaying(ok) PROVE StreamType'
  BY <1>12 DEF StartPlaying
<1>13. ASSUME NEW ok \in BOOLEAN, JoinAndStop(ok) PROVE StreamType'
  BY <1>13 DEF JoinAndStop
<1>14. ASSUME NEW ok \in BOOLEAN, OnDecoderInput(ok) PROVE StreamType'
  <2>1. \/ stream' = [stream EXCEPT !.fed = stream.fed + 1,
                                      !.inside = Append(@, stream.fed + 1)]
        \/ stream' = [stream EXCEPT !.fed = stream.fed + 1]
    BY <1>14 DEF OnDecoderInput
  <2>2. stream.fed + 1 \in Nat /\ Append(stream.inside, stream.fed + 1) \in Seq(Numbers)
    OBVIOUS
  <2> QED
    BY ONLY <2>1, <2>2, StreamType DEF StreamType
<1>15. ASSUME NEW ok \in BOOLEAN, Admit(ok) PROVE StreamType'
  BY <1>15 DEF Admit, Processed, WorkerEnds, Woken, Returned, Recorded
<1>16. ASSUME NEW ok \in BOOLEAN, CheckSample(ok) PROVE StreamType'
  BY <1>16 DEF CheckSample, Processed, WorkerEnds, Woken, Returned, Recorded
<1>17. ASSUME NEW ok \in BOOLEAN, ImportAndPresent(ok) PROVE StreamType'
  BY <1>17 DEF ImportAndPresent, Processed, WorkerEnds, Woken, Returned, Recorded
<1>18. ASSUME NEW ok \in BOOLEAN, Roundtrip(ok) PROVE StreamType'
  BY <1>18 DEF Roundtrip, Processed, WorkerEnds, Woken, Returned, Recorded
<1>19. ASSUME NEW how \in {"eos", "error"}, StreamEnds(how) PROVE StreamType'
  BY <1>19 DEF StreamEnds
<1>20. ASSUME NEW feedback \in Feedbacks, OnFeedback(feedback) PROVE StreamType'
  BY <1>20 DEF OnFeedback, Processed, WorkerEnds, Woken, Returned, Recorded
<1>21. ASSUME NEW feedback \in Feedbacks, OnAsyncFeedback(feedback) PROVE StreamType'
  BY <1>21 DEF OnAsyncFeedback, Recorded
<1>22. CASE UNCHANGED clientVars
  BY <1>22 DEF clientVars
<1> QED
  BY <1>1, <1>2, <1>3, <1>4, <1>5, <1>6, <1>7, <1>8, <1>9, <1>10, <1>11,
     <1>12, <1>13, <1>14, <1>15, <1>16, <1>17, <1>18, <1>19, <1>20, <1>21, <1>22
    DEF ClientNext, ClientMain, Streaming, Presenting

LEMMA StoppingTypeNext ==
    ASSUME StoppingType, [ClientNext]_clientVars
    PROVE  StoppingType'
<1> USE DEF mainOnly, StoppingType
<1>1. CASE ClientParse
  BY <1>1 DEF ClientParse
<1>2. CASE PopMessage
  BY <1>2 DEF PopMessage, Woken
<1>3. CASE ShutdownGraphics
  BY <1>3 DEF ShutdownGraphics
<1>4. CASE OnNewSample
  BY <1>4 DEF OnNewSample
<1>5. CASE PutReady
  BY <1>5 DEF PutReady, Woken, Returned
<1>6. CASE TakeReady
  BY <1>6 DEF TakeReady, Woken, WorkerEnds
<1>7. CASE AnnounceTaken
  BY <1>7 DEF AnnounceTaken, Woken
<1>8. CASE DispatchFails
  BY <1>8 DEF DispatchFails, Processed, WorkerEnds, Woken, Returned, Recorded
<1>9. CASE DrainAsyncFeedback
  BY <1>9 DEF DrainAsyncFeedback
<1>10. ASSUME NEW outcome \in Outcomes, InitializeGraphics(outcome) PROVE StoppingType'
  BY <1>10 DEF InitializeGraphics
<1>11. ASSUME NEW ok \in BOOLEAN, EstablishPhase(ok) PROVE StoppingType'
  BY <1>11 DEF EstablishPhase
<1>12. ASSUME NEW ok \in BOOLEAN, StartPlaying(ok) PROVE StoppingType'
  BY <1>12 DEF StartPlaying
<1>13. ASSUME NEW ok \in BOOLEAN, JoinAndStop(ok) PROVE StoppingType'
  BY <1>13 DEF JoinAndStop
<1>14. ASSUME NEW ok \in BOOLEAN, OnDecoderInput(ok) PROVE StoppingType'
  BY <1>14 DEF OnDecoderInput
<1>15. ASSUME NEW ok \in BOOLEAN, Admit(ok) PROVE StoppingType'
  BY <1>15 DEF Admit, Processed, WorkerEnds, Woken, Returned, Recorded
<1>16. ASSUME NEW ok \in BOOLEAN, CheckSample(ok) PROVE StoppingType'
  BY <1>16 DEF CheckSample, Processed, WorkerEnds, Woken, Returned, Recorded
<1>17. ASSUME NEW ok \in BOOLEAN, ImportAndPresent(ok) PROVE StoppingType'
  BY <1>17 DEF ImportAndPresent, Processed, WorkerEnds, Woken, Returned, Recorded
<1>18. ASSUME NEW ok \in BOOLEAN, Roundtrip(ok) PROVE StoppingType'
  BY <1>18 DEF Roundtrip, Processed, WorkerEnds, Woken, Returned, Recorded
<1>19. ASSUME NEW how \in {"eos", "error"}, StreamEnds(how) PROVE StoppingType'
  BY <1>19 DEF StreamEnds
<1>20. ASSUME NEW feedback \in Feedbacks, OnFeedback(feedback) PROVE StoppingType'
  BY <1>20 DEF OnFeedback, Processed, WorkerEnds, Woken, Returned, Recorded
<1>21. ASSUME NEW feedback \in Feedbacks, OnAsyncFeedback(feedback) PROVE StoppingType'
  BY <1>21 DEF OnAsyncFeedback, Recorded
<1>22. CASE UNCHANGED clientVars
  BY <1>22 DEF clientVars
<1> QED
  BY <1>1, <1>2, <1>3, <1>4, <1>5, <1>6, <1>7, <1>8, <1>9, <1>10, <1>11,
     <1>12, <1>13, <1>14, <1>15, <1>16, <1>17, <1>18, <1>19, <1>20, <1>21, <1>22
    DEF ClientNext, ClientMain, Streaming, Presenting

LEMMA PresenterTypeNext ==
    ASSUME StreamType, SamplesType, PresenterType, [ClientNext]_clientVars
    PROVE  PresenterType'
<1> USE PlaceNames, HandTypes DEF mainOnly, PresenterType
<1>1. CASE ClientParse
  BY <1>1 DEF ClientParse
<1>2. CASE PopMessage
  BY <1>2 DEF PopMessage, Woken
<1>3. CASE ShutdownGraphics
  BY <1>3 DEF ShutdownGraphics
<1>4. CASE OnNewSample
  <2>1. \/ presenter' = presenter
        \/ /\ stamps # <<>> /\ stream.inside # <<>>
           /\ presenter' = [presenter EXCEPT !.stage = "admit",
                              !.sample = <<[frame |-> Head(stream.inside),
                                            stamp |-> Head(stamps)]>>]
    BY <1>4 DEF OnNewSample
  <2>2. stream.inside # <<>> => Head(stream.inside) \in Numbers
    BY DEF StreamType
  <2>3. stamps # <<>> /\ stream.inside # <<>> =>
          <<[frame |-> Head(stream.inside), stamp |-> Head(stamps)]>> \in Seq(Samples)
    BY <2>2 DEF SamplesType
  <2> QED
    BY <2>1, <2>3
<1>5. CASE PutReady
  BY <1>5 DEF PutReady, Woken, Returned
<1>6. CASE TakeReady
  <2>1. \/ presenter' = [presenter EXCEPT !.pc = "drain"]
        \/ presenter' = [presenter EXCEPT !.pc = "gone"]
        \/ presenter' = [presenter EXCEPT !.pc = "sleep"]
        \/ presenter' = [pc |-> "taken", stage |-> "none", sample |-> ready]
    BY <1>6, Zenon DEF TakeReady, WorkerEnds
  <2>2. ready \in Seq(Samples)
    BY DEF SamplesType
  <2> QED
    BY <2>1, <2>2, SMTT(30)
<1>7. CASE AnnounceTaken
  BY <1>7 DEF AnnounceTaken, Woken
<1>8. CASE DispatchFails
  BY <1>8, ZenonT(60) DEF DispatchFails, Processed, WorkerEnds, Woken, Returned, Recorded
<1>9. CASE DrainAsyncFeedback
  BY <1>9 DEF DrainAsyncFeedback
<1>10. ASSUME NEW outcome \in Outcomes, InitializeGraphics(outcome) PROVE PresenterType'
  BY <1>10 DEF InitializeGraphics
<1>11. ASSUME NEW ok \in BOOLEAN, EstablishPhase(ok) PROVE PresenterType'
  BY <1>11 DEF EstablishPhase
<1>12. ASSUME NEW ok \in BOOLEAN, StartPlaying(ok) PROVE PresenterType'
  BY <1>12 DEF StartPlaying
<1>13. ASSUME NEW ok \in BOOLEAN, JoinAndStop(ok) PROVE PresenterType'
  BY <1>13 DEF JoinAndStop
<1>14. ASSUME NEW ok \in BOOLEAN, OnDecoderInput(ok) PROVE PresenterType'
  BY <1>14 DEF OnDecoderInput
<1>15. ASSUME NEW ok \in BOOLEAN, Admit(ok) PROVE PresenterType'
  BY <1>15 DEF Admit, Processed, WorkerEnds, Woken, Returned, Recorded
<1>16. ASSUME NEW ok \in BOOLEAN, CheckSample(ok) PROVE PresenterType'
  BY <1>16, ZenonT(60) DEF CheckSample, Processed, WorkerEnds, Woken, Returned, Recorded
<1>17. ASSUME NEW ok \in BOOLEAN, ImportAndPresent(ok) PROVE PresenterType'
  BY <1>17, ZenonT(60) DEF ImportAndPresent, Processed, WorkerEnds, Woken, Returned, Recorded
<1>18. ASSUME NEW ok \in BOOLEAN, Roundtrip(ok) PROVE PresenterType'
  BY <1>18 DEF Roundtrip, Processed, WorkerEnds, Woken, Returned, Recorded
<1>19. ASSUME NEW how \in {"eos", "error"}, StreamEnds(how) PROVE PresenterType'
  BY <1>19 DEF StreamEnds
<1>20. ASSUME NEW feedback \in Feedbacks, OnFeedback(feedback) PROVE PresenterType'
  BY <1>20 DEF OnFeedback, Processed, WorkerEnds, Woken, Returned, Recorded
<1>21. ASSUME NEW feedback \in Feedbacks, OnAsyncFeedback(feedback) PROVE PresenterType'
  BY <1>21 DEF OnAsyncFeedback, Recorded
<1>22. CASE UNCHANGED clientVars
  BY <1>22 DEF clientVars
<1> QED
  BY <1>1, <1>2, <1>3, <1>4, <1>5, <1>6, <1>7, <1>8, <1>9, <1>10, <1>11,
     <1>12, <1>13, <1>14, <1>15, <1>16, <1>17, <1>18, <1>19, <1>20, <1>21, <1>22
    DEF ClientNext, ClientMain, Streaming, Presenting

LEMMA OneLong ==
    ASSUME NEW S, NEW s \in Seq(S), Len(s) <= 1, s # <<>>
    PROVE  Len(s) = 1 /\ s[1] \in S /\ s = <<s[1]>>
<1>1. Len(s) # 0
  BY EmptySeq
<1>2. Len(s) = 1 /\ s[1] \in S
  BY <1>1
<1> QED
  BY <1>2

\* What each handler does, field by field, in a state the program can be in.
ProcessedFields(valid) ==
    /\ alive' = alive \ {presenter.sample[1].frame}
    /\ stopping'.done = stopping.done
    /\ stopping'.failed <=> stopping.failed \/ ~valid
    /\ stopping'.stop <=> stopping.stop \/ (~valid /\ Threaded(cl.opt))
    /\ presenter'.stage = "none" /\ presenter'.sample = <<>>
    /\ stream'.fed = stream.fed /\ stream'.inside = stream.inside
    /\ stream'.queued = stream.queued
    /\ Threaded(cl.opt) =>
         /\ presenter'.pc = (IF valid THEN "check"
                             ELSE IF Async(cl.opt) THEN "drain" ELSE "gone")
         /\ stream'.sample = stream.sample /\ bus' = bus
         /\ stream'.pc = (IF valid THEN stream.pc ELSE Woken(stream.pc))
    /\ ~Threaded(cl.opt) =>
         /\ presenter'.pc = presenter.pc /\ stream'.sample = <<>>
         /\ stream'.pc = (IF ~valid \/ Len(shown') >= cl.opt.frames THEN "ended" ELSE "idle")
         /\ bus' = (IF ~valid THEN "error"
                        ELSE IF Len(shown') >= cl.opt.frames THEN "eos" ELSE bus)

LEMMA ProcessedDoes ==
    ASSUME ClientMainType, StreamType, StoppingType, PresenterType, NEW valid \in BOOLEAN,
           Processed(valid)
    PROVE  ProcessedFields(valid)
<1> USE DEF ProcessedFields
<1>1. /\ alive' = alive \ {presenter.sample[1].frame}
      /\ stopping'.done = stopping.done
      /\ stopping'.failed <=> stopping.failed \/ ~valid
      /\ stopping'.stop <=> stopping.stop \/ (~valid /\ Threaded(cl.opt))
  BY DEF Processed, StoppingType
<1>2. CASE Threaded(cl.opt)
  <2>1. presenter' = [presenter EXCEPT !.stage = "none", !.sample = <<>>,
                        !.pc = IF valid THEN "check"
                               ELSE IF Async(cl.opt) THEN "drain" ELSE "gone"]
    BY <1>2 DEF Processed, WorkerEnds, PresenterType
  <2>2. stream' = [stream EXCEPT !.pc = IF valid THEN @ ELSE Woken(@)] /\ bus' = bus
    BY <1>2 DEF Processed
  <2> QED
    BY ONLY <1>1, <1>2, <2>1, <2>2, PresenterType, StreamType DEF PresenterType, StreamType
<1>3. CASE ~Threaded(cl.opt)
  <2>1. presenter' = [presenter EXCEPT !.stage = "none", !.sample = <<>>]
    BY <1>3 DEF Processed
  <2>2. stream' = [stream EXCEPT !.sample = <<>>,
                     !.pc = IF ~valid \/ Len(shown') >= cl.opt.frames THEN "ended" ELSE "idle"]
    BY <1>3, Zenon DEF Processed
  <2>3. bus' = (IF ~valid THEN "error"
                ELSE IF Len(shown') >= cl.opt.frames THEN "eos" ELSE bus)
    BY <1>3 DEF Processed, Returned
  <2> QED
    BY ONLY <1>1, <1>3, <2>1, <2>2, <2>3, PresenterType, StreamType DEF PresenterType, StreamType
<1> QED
  BY <1>2, <1>3

LEMMA OnNewSampleDoes ==
    ASSUME StreamType, PresenterType, StreamPlace, OnNewSample
    PROVE  /\ stream.pc = "idle" /\ stream.inside # <<>> /\ stamps = stream.inside
           /\ stamps' = Tail(stream.inside) /\ alive' = alive \cup {Head(stream.inside)}
           /\ stream'.fed = stream.fed /\ stream'.inside = Tail(stream.inside)
           /\ stream'.sample = <<[frame |-> Head(stream.inside), stamp |-> Head(stream.inside)]>>
           /\ Threaded(cl.opt) => /\ stream'.queued = stream.queued /\ stream'.pc = "check"
                                  /\ presenter' = presenter
           /\ ~Threaded(cl.opt) =>
                /\ stream'.queued = stream.queued + 1 /\ stream'.pc = "present"
                /\ presenter'.pc = presenter.pc /\ presenter'.stage = "admit"
                /\ presenter'.sample = stream'.sample
           /\ UNCHANGED <<cl, graphics, ready, stopping, flight, shown, bus>>
<1> DEFINE sample == <<[frame |-> Head(stream.inside), stamp |-> Head(stream.inside)]>>
<1>1. stream.pc = "idle" /\ stream.inside # <<>> /\ stamps = stream.inside /\ stamps # <<>>
  BY DEF OnNewSample, StreamPlace
<1>2. /\ stamps' = Tail(stream.inside) /\ alive' = alive \cup {Head(stream.inside)}
      /\ stream' = [stream EXCEPT !.inside = Tail(@), !.sample = sample,
                      !.queued = IF Threaded(cl.opt) THEN @ ELSE @ + 1,
                      !.pc = IF Threaded(cl.opt) THEN "check" ELSE "present"]
      /\ presenter' = IF Threaded(cl.opt) THEN presenter
                      ELSE [presenter EXCEPT !.stage = "admit", !.sample = sample]
      /\ UNCHANGED <<cl, graphics, ready, stopping, flight, shown, bus>>
  BY <1>1 DEF OnNewSample
<1> HIDE DEF sample
<1>3. /\ stream'.fed = stream.fed /\ stream'.inside = Tail(stream.inside)
      /\ stream'.sample = sample
      /\ Threaded(cl.opt) => /\ stream'.queued = stream.queued /\ stream'.pc = "check"
                             /\ presenter' = presenter
      /\ ~Threaded(cl.opt) =>
           /\ stream'.queued = stream.queued + 1 /\ stream'.pc = "present"
           /\ presenter'.pc = presenter.pc /\ presenter'.stage = "admit"
           /\ presenter'.sample = sample
  BY ONLY <1>2, StreamType, PresenterType DEF StreamType, PresenterType
<1> USE DEF sample
<1> QED
  BY <1>1, <1>2, <1>3, Zenon

LEMMA PutReadyDoes ==
    ASSUME StreamType, PresenterType, StreamPlace, PutReady
    PROVE  /\ stream.pc = "check" /\ Threaded(cl.opt) /\ Len(stream.sample) = 1
           /\ stream'.fed = stream.fed /\ stream'.inside = stream.inside
           /\ UNCHANGED <<cl, graphics, stamps, stopping, flight, shown>>
           /\ presenter'.stage = presenter.stage /\ presenter'.sample = presenter.sample
           /\ \/ /\ stopping.stop /\ alive' = alive \ {stream.sample[1].frame}
                 /\ stream'.pc = "ended" /\ stream'.sample = <<>> /\ stream'.queued = stream.queued
                 /\ bus' = "error" /\ UNCHANGED <<ready, presenter>>
              \/ /\ ~stopping.stop /\ ready # <<>> /\ stream'.pc = "sleep"
                 /\ stream'.sample = stream.sample /\ stream'.queued = stream.queued
                 /\ UNCHANGED <<ready, presenter, alive, bus>>
              \/ /\ ~stopping.stop /\ ready = <<>> /\ ready' = stream.sample
                 /\ presenter'.pc = Woken(presenter.pc)
                 /\ stream'.queued = stream.queued + 1 /\ stream'.sample = <<>>
                 /\ stream'.pc = (IF stream.queued + 1 >= cl.opt.frames THEN "ended" ELSE "idle")
                 /\ bus' = (IF stream.queued + 1 >= cl.opt.frames THEN "eos" ELSE bus)
                 /\ alive' = alive
<1>1. stream.pc = "check" /\ Threaded(cl.opt) /\ Len(stream.sample) = 1
  BY DEF PutReady, StreamPlace, Holds
<1>2. UNCHANGED <<cl, graphics, stamps, stopping, flight, shown>>
  BY DEF PutReady
<1>3. \/ /\ stopping.stop /\ alive' = alive \ {stream.sample[1].frame}
         /\ stream' = [stream EXCEPT !.pc = "ended", !.sample = <<>>]
         /\ bus' = "error" /\ UNCHANGED <<ready, presenter>>
      \/ /\ ~stopping.stop /\ ready # <<>>
         /\ stream' = [stream EXCEPT !.pc = "sleep"]
         /\ UNCHANGED <<ready, presenter, alive, bus>>
      \/ /\ ~stopping.stop /\ ready = <<>> /\ ready' = stream.sample
         /\ presenter' = [presenter EXCEPT !.pc = Woken(@)]
         /\ stream' = [stream EXCEPT !.queued = stream.queued + 1, !.sample = <<>>,
                         !.pc = IF stream.queued + 1 >= cl.opt.frames THEN "ended" ELSE "idle"]
         /\ bus' = (IF stream.queued + 1 >= cl.opt.frames THEN "eos" ELSE bus)
         /\ alive' = alive
  BY DEF PutReady, Returned
<1> QED
  BY ONLY <1>1, <1>2, <1>3, StreamType, PresenterType, ZenonT(60) DEF StreamType, PresenterType

LEMMA OnDecoderInputDoes ==
    ASSUME StreamType, StoppingType, NEW ok \in BOOLEAN, OnDecoderInput(ok)
    PROVE  /\ stream.pc = "idle" /\ stream'.pc = "idle" /\ stream'.fed = stream.fed + 1
           /\ stream'.sample = stream.sample /\ stream'.queued = stream.queued
           /\ UNCHANGED <<cl, graphics, ready, presenter, flight, shown, alive, bus>>
           /\ stopping'.done = stopping.done /\ stopping'.stop = stopping.stop
           /\ \/ /\ stopping'.failed = stopping.failed
                 /\ stream'.inside = Append(stream.inside, stream.fed + 1)
                 /\ stamps' = Append(stamps, stream.fed + 1)
              \/ /\ stopping'.failed /\ stream'.inside = stream.inside /\ stamps' = stamps
<1>1. /\ stream.pc = "idle"
      /\ UNCHANGED <<cl, graphics, ready, presenter, flight, shown, alive, bus>>
      /\ \/ /\ stream' = [stream EXCEPT !.fed = stream.fed + 1,
                                        !.inside = Append(@, stream.fed + 1)]
            /\ stamps' = Append(stamps, stream.fed + 1) /\ stopping' = stopping
         \/ /\ stream' = [stream EXCEPT !.fed = stream.fed + 1]
            /\ stopping' = [stopping EXCEPT !.failed = TRUE] /\ stamps' = stamps
  BY DEF OnDecoderInput
<1> QED
  BY ONLY <1>1, StreamType, StoppingType DEF StreamType, StoppingType

LEMMA StreamEndsDoes ==
    ASSUME StreamType, NEW how \in {"eos", "error"}, StreamEnds(how)
    PROVE  /\ stream.pc = "idle" /\ stream'.pc = "ended" /\ bus' = how
           /\ stream'.fed = stream.fed /\ stream'.inside = stream.inside
           /\ stream'.sample = stream.sample /\ stream'.queued = stream.queued
           /\ UNCHANGED <<cl, graphics, stamps, ready, stopping, presenter, flight, shown, alive>>
BY DEF StreamEnds, StreamType

LEMMA TakeReadyDoes ==
    ASSUME StreamType, PresenterType, TakeReady
    PROVE  /\ presenter.pc = "check"
           /\ UNCHANGED <<cl, graphics, stamps, stopping, flight, shown, bus>>
           /\ stream'.fed = stream.fed /\ stream'.inside = stream.inside
           /\ stream'.sample = stream.sample /\ stream'.queued = stream.queued
           /\ \/ /\ stopping.stop /\ alive' = alive \ {s.frame : s \in ToSet(ready)}
                 /\ ready' = <<>> /\ stream'.pc = Woken(stream.pc)
                 /\ presenter'.pc = (IF Async(cl.opt) THEN "drain" ELSE "gone")
                 /\ presenter'.stage = presenter.stage /\ presenter'.sample = presenter.sample
              \/ /\ ~stopping.stop /\ ready = <<>> /\ UNCHANGED <<ready, stream, alive>>
                 /\ presenter'.pc = (IF ~stopping.done THEN "sleep"
                                     ELSE IF Async(cl.opt) THEN "drain" ELSE "gone")
                 /\ presenter'.stage = presenter.stage /\ presenter'.sample = presenter.sample
              \/ /\ ~stopping.stop /\ ready # <<>> /\ ready' = <<>> /\ UNCHANGED <<stream, alive>>
                 /\ presenter'.pc = "taken" /\ presenter'.stage = "none"
                 /\ presenter'.sample = ready
<1>1. /\ presenter.pc = "check"
      /\ UNCHANGED <<cl, graphics, stamps, stopping, flight, shown, bus>>
      /\ \/ /\ stopping.stop /\ alive' = alive \ {s.frame : s \in ToSet(ready)}
            /\ ready' = <<>> /\ stream' = [stream EXCEPT !.pc = Woken(@)]
            /\ presenter' = [presenter EXCEPT !.pc = IF Async(cl.opt) THEN "drain" ELSE "gone"]
         \/ /\ ~stopping.stop /\ ready = <<>> /\ UNCHANGED <<ready, stream, alive>>
            /\ presenter' = [presenter EXCEPT
                               !.pc = IF ~stopping.done THEN "sleep"
                                      ELSE IF Async(cl.opt) THEN "drain" ELSE "gone"]
         \/ /\ ~stopping.stop /\ ready # <<>> /\ ready' = <<>> /\ UNCHANGED <<stream, alive>>
            /\ presenter' = [pc |-> "taken", stage |-> "none", sample |-> ready]
  BY DEF TakeReady, WorkerEnds
<1> QED
  BY ONLY <1>1, StreamType, PresenterType DEF StreamType, PresenterType

LEMMA AnnounceTakenDoes ==
    ASSUME StreamType, PresenterType, AnnounceTaken
    PROVE  /\ presenter.pc = "taken" /\ presenter'.pc = "present" /\ presenter'.stage = "admit"
           /\ presenter'.sample = presenter.sample
           /\ stream'.fed = stream.fed /\ stream'.inside = stream.inside
           /\ stream'.sample = stream.sample /\ stream'.queued = stream.queued
           /\ stream'.pc = Woken(stream.pc)
           /\ UNCHANGED <<cl, graphics, stamps, ready, stopping, flight, shown, alive, bus>>
BY DEF AnnounceTaken, StreamType, PresenterType

\* The presenter goes on to its next stage with the same sample.
Stage(next) ==
    /\ presenter'.pc = presenter.pc /\ presenter'.sample = presenter.sample
    /\ presenter'.stage = next
    /\ UNCHANGED <<stream, stopping, alive, bus>>

LEMMA AdmitDoes ==
    ASSUME ClientMainType, StreamType, StoppingType, PresenterType, NEW stale \in BOOLEAN,
           Admit(stale)
    PROVE  /\ presenter.stage = "admit" /\ (Async(cl.opt) => Len(flight) < Limit)
           /\ UNCHANGED <<cl, graphics, stamps, ready, flight, shown>>
           /\ \/ Async(cl.opt) /\ ProcessedFields(TRUE)
              \/ Stage("check")
<1>1. /\ presenter.stage = "admit" /\ (Async(cl.opt) => Len(flight) < Limit)
      /\ UNCHANGED <<cl, graphics, stamps, ready, flight, shown>>
      /\ \/ Async(cl.opt) /\ Processed(TRUE)
         \/ /\ presenter' = [presenter EXCEPT !.stage = "check"]
            /\ UNCHANGED <<stream, stopping, alive, bus>>
  BY DEF Admit
<1>2. Processed(TRUE) => ProcessedFields(TRUE)
  BY ProcessedDoes
<1> QED
  BY ONLY <1>1, <1>2, PresenterType DEF PresenterType, Stage

LEMMA CheckSampleDoes ==
    ASSUME ClientMainType, StreamType, StoppingType, PresenterType, NEW ok \in BOOLEAN,
           CheckSample(ok)
    PROVE  /\ presenter.stage = "check"
           /\ UNCHANGED <<cl, graphics, stamps, ready, flight, shown>>
           /\ ProcessedFields(FALSE) \/ Stage("import")
<1>1. /\ presenter.stage = "check"
      /\ UNCHANGED <<cl, graphics, stamps, ready, flight, shown>>
      /\ \/ Processed(FALSE)
         \/ /\ presenter' = [presenter EXCEPT !.stage = "import"]
            /\ UNCHANGED <<stream, stopping, alive, bus>>
  BY DEF CheckSample
<1>2. Processed(FALSE) => ProcessedFields(FALSE)
  BY ProcessedDoes
<1> QED
  BY ONLY <1>1, <1>2, PresenterType DEF PresenterType, Stage

LEMMA ImportAndPresentDoes ==
    ASSUME ClientMainType, StreamType, StoppingType, PresenterType, NEW ok \in BOOLEAN,
           ImportAndPresent(ok)
    PROVE  /\ presenter.stage = "import"
           /\ UNCHANGED <<cl, stamps, ready, shown>>
           /\ \/ /\ ProcessedFields(FALSE) /\ flight' = flight
                 /\ \E left \in SUBSET Leftovers : graphics' = graphics \cup left
              \/ /\ Stage(IF Async(cl.opt) THEN "roundtrip" ELSE "feedback")
                 /\ flight' = Append(flight, presenter.sample[1])
                 /\ graphics' = graphics
<1>1. presenter.stage = "import" /\ UNCHANGED <<cl, stamps, ready, shown>>
  BY DEF ImportAndPresent
<1>2. CASE ok
  <2>1. /\ presenter' = [presenter EXCEPT
                            !.stage = IF Async(cl.opt) THEN "roundtrip" ELSE "feedback"]
        /\ UNCHANGED <<graphics, stream, stopping, alive, bus>>
        /\ flight' = Append(flight, presenter.sample[1])
    BY <1>2 DEF ImportAndPresent
  <2> QED
    BY ONLY <1>1, <2>1, PresenterType DEF PresenterType, Stage
<1>3. CASE ~ok
  <2>1. Processed(FALSE) /\ flight' = flight
        /\ \E left \in ImportLeaves : graphics' = graphics \cup left
    BY <1>3, Zenon DEF ImportAndPresent
  <2>2. \E left \in SUBSET Leftovers : graphics' = graphics \cup left
    <3>1. \A left \in ImportLeaves : left \in SUBSET Leftovers
      BY DEF ImportLeaves, Leftovers
    <3> QED
      BY ONLY <2>1, <3>1, Zenon
  <2>3. ProcessedFields(FALSE)
    BY <2>1, ProcessedDoes
  <2> QED
    BY ONLY <1>1, <2>1, <2>2, <2>3, Zenon
<1> QED
  BY <1>2, <1>3

LEMMA OnFeedbackDoes ==
    ASSUME ClientMainType, StreamType, StoppingType, PresenterType,
           NEW feedback \in Feedbacks, OnFeedback(feedback)
    PROVE  /\ presenter.stage = "feedback" /\ flight' = <<>>
           /\ UNCHANGED <<cl, graphics, stamps, ready>>
           /\ \/ ProcessedFields(TRUE) /\ shown' = Append(shown, Head(flight))
              \/ ProcessedFields(FALSE) /\ shown' = shown
<1>1. /\ presenter.stage = "feedback" /\ flight' = <<>>
      /\ UNCHANGED <<cl, graphics, stamps, ready>>
      /\ \/ Processed(TRUE) /\ shown' = Append(shown, Head(flight))
         \/ Processed(FALSE) /\ shown' = shown
  BY DEF OnFeedback, Recorded
<1>2. \A valid \in BOOLEAN : Processed(valid) => ProcessedFields(valid)
  BY ProcessedDoes
<1> QED
  BY ONLY <1>1, <1>2

LEMMA OnAsyncFeedbackDoes ==
    ASSUME StoppingType, NEW feedback \in Feedbacks, OnAsyncFeedback(feedback)
    PROVE  /\ Async(cl.opt) /\ Dispatching /\ flight # <<>> /\ flight' = Tail(flight)
           /\ shown' = shown \/ shown' = Append(shown, Head(flight))
           /\ stopping'.done = stopping.done /\ stopping'.stop = stopping.stop
           /\ stopping.failed => stopping'.failed
           /\ stopping'.failed \/ shown' = Append(shown, Head(flight))
           /\ UNCHANGED <<cl, graphics, stream, stamps, ready, presenter, alive, bus>>
<1>1. /\ Async(cl.opt) /\ Dispatching /\ flight # <<>> /\ flight' = Tail(flight)
      /\ shown' = IF feedback = "discarded" THEN shown ELSE Append(shown, Head(flight))
      /\ stopping' = [stopping EXCEPT !.failed = @ \/ feedback # "presented"]
      /\ UNCHANGED <<cl, graphics, stream, stamps, ready, presenter, alive, bus>>
  BY Zenon DEF OnAsyncFeedback, Recorded
<1>2. /\ stopping'.done = stopping.done /\ stopping'.stop = stopping.stop
      /\ stopping.failed => stopping'.failed
      /\ feedback # "presented" => stopping'.failed
  BY ONLY <1>1, StoppingType DEF StoppingType
<1>3. feedback # "presented" \/ shown' = Append(shown, Head(flight))
  BY ONLY <1>1
<1> QED
  BY <1>1, <1>2, <1>3

LEMMA RoundtripDoes ==
    ASSUME ClientMainType, StreamType, StoppingType, PresenterType, NEW ok \in BOOLEAN,
           Roundtrip(ok)
    PROVE  /\ presenter.stage = "roundtrip"
           /\ UNCHANGED <<cl, graphics, stamps, ready, flight, shown>>
           /\ \E valid \in BOOLEAN : ProcessedFields(valid)
<1>1. /\ presenter.stage = "roundtrip"
      /\ UNCHANGED <<cl, graphics, stamps, ready, flight, shown>>
      /\ Processed(ok /\ ~stopping.failed) /\ (ok /\ ~stopping.failed) \in BOOLEAN
  BY DEF Roundtrip
<1>2. ProcessedFields(ok /\ ~stopping.failed)
  BY <1>1, ProcessedDoes
<1> QED
  BY <1>1, <1>2

LEMMA DispatchFailsDoes ==
    ASSUME ClientMainType, StreamType, StoppingType, PresenterType, DispatchFails
    PROVE  /\ Async(cl.opt) /\ UNCHANGED <<cl, graphics, stamps, ready, flight, shown>>
           /\ \/ /\ presenter.pc = "drain" /\ presenter'.pc = "gone"
                 /\ presenter'.stage = presenter.stage /\ presenter'.sample = presenter.sample
                 /\ stopping'.failed /\ stopping'.done = stopping.done
                 /\ stopping'.stop = stopping.stop /\ UNCHANGED <<stream, alive, bus>>
              \/ presenter.stage = "admit" /\ ProcessedFields(FALSE)
<1>1. /\ Async(cl.opt) /\ UNCHANGED <<cl, graphics, stamps, ready, flight, shown>>
      /\ \/ /\ presenter.pc = "drain" /\ presenter' = [presenter EXCEPT !.pc = "gone"]
            /\ stopping' = [stopping EXCEPT !.failed = TRUE] /\ UNCHANGED <<stream, alive, bus>>
         \/ presenter.stage = "admit" /\ Processed(FALSE)
  BY DEF DispatchFails, Dispatching
<1>2. Processed(FALSE) => ProcessedFields(FALSE)
  BY ProcessedDoes
<1> QED
  BY ONLY <1>1, <1>2, PresenterType, StoppingType DEF PresenterType, StoppingType

LEMMA DrainDoes ==
    ASSUME PresenterType, DrainAsyncFeedback
    PROVE  /\ presenter.pc = "drain" /\ flight = <<>> /\ presenter'.pc = "gone"
           /\ presenter'.stage = presenter.stage /\ presenter'.sample = presenter.sample
           /\ UNCHANGED <<cl, graphics, stream, stamps, ready, stopping, flight, shown, alive, bus>>
BY DEF DrainAsyncFeedback, PresenterType

LEMMA PopMessageDoes ==
    ASSUME ClientMainType, StreamType, StoppingType, PresenterType, PopMessage
    PROVE  /\ cl.pc = "wait" /\ bus # "none" /\ cl'.pc = "join" /\ cl'.eos = (bus = "eos")
           /\ cl'.opt = cl.opt /\ cl'.code = cl.code /\ cl'.step = cl.step
           /\ UNCHANGED <<graphics, stamps, ready, flight, shown, alive, bus>>
           /\ stream'.fed = stream.fed /\ stream'.inside = stream.inside
           /\ stream'.sample = stream.sample /\ stream'.queued = stream.queued
           /\ presenter'.stage = presenter.stage /\ presenter'.sample = presenter.sample
           /\ stopping'.failed = stopping.failed
           /\ IF Threaded(cl.opt)
                THEN /\ stopping'.done /\ stopping'.stop = (stopping.stop \/ bus = "error")
                     /\ presenter'.pc = Woken(presenter.pc) /\ stream'.pc = Woken(stream.pc)
                ELSE UNCHANGED <<stopping, presenter, stream>>
<1>1. /\ cl.pc = "wait" /\ bus # "none" /\ cl' = [cl EXCEPT !.pc = "join", !.eos = bus = "eos"]
      /\ UNCHANGED <<graphics, stamps, ready, flight, shown, alive, bus>>
  BY DEF PopMessage
<1>2. cl'.pc = "join" /\ cl'.eos = (bus = "eos") /\ cl'.opt = cl.opt /\ cl'.code = cl.code
      /\ cl'.step = cl.step
  BY ONLY <1>1, ClientMainType DEF ClientMainType
<1>3. CASE Threaded(cl.opt)
  <2>1. /\ stopping' = [stopping EXCEPT !.done = TRUE, !.stop = @ \/ bus = "error"]
        /\ presenter' = [presenter EXCEPT !.pc = Woken(@)]
        /\ stream' = [stream EXCEPT !.pc = Woken(@)]
    BY <1>3, Zenon DEF PopMessage
  <2> QED
    BY ONLY <1>1, <1>2, <1>3, <2>1, StreamType, StoppingType, PresenterType
    DEF StreamType, StoppingType, PresenterType
<1>4. CASE ~Threaded(cl.opt)
  BY <1>1, <1>2, <1>4 DEF PopMessage
<1> QED
  BY <1>3, <1>4

\* Nothing but the main thread's own state and the graphics objects changes.
Apart == UNCHANGED <<stream, stamps, ready, stopping, presenter, flight, shown, alive, bus>>

\* A step of initialize_graphics makes its object, from what it asks for, or does without.
GraphicsStep(object) ==
    \/ /\ graphics' = graphics \cup {object} /\ Checked(object) \subseteq graphics
       /\ object \in Dependent => GraphicsNeeds(object) \subseteq graphics
    \/ graphics' = graphics /\ object \in Optional

LEMMA ClientParseDoes ==
    ASSUME ClientMainType, ClientParse
    PROVE  /\ cl.pc = "options" /\ cl'.opt = cl.opt /\ cl'.eos = cl.eos /\ cl'.step = cl.step
           /\ \/ cl'.pc = "graphics" /\ cl'.code = cl.code /\ ClientOptionsValid(cl.opt)
              \/ cl'.pc = "exit" /\ cl'.code = 2
           /\ Apart /\ graphics' = graphics
<1>1. /\ cl.pc = "options" /\ Apart /\ graphics' = graphics
      /\ \/ cl' = [cl EXCEPT !.pc = "graphics"] /\ ClientOptionsValid(cl.opt)
         \/ cl' = [cl EXCEPT !.pc = "exit", !.code = 2]
  BY Zenon DEF ClientParse, Apart, mainOnly
<1> QED
  BY ONLY <1>1, ClientMainType DEF ClientMainType

LEMMA InitializeGraphicsDoes ==
    ASSUME ClientMainType, NEW outcome \in Outcomes, InitializeGraphics(outcome)
    PROVE  /\ cl.pc = "graphics" /\ cl.step < Len(GraphicsSetup)
           /\ cl'.opt = cl.opt /\ cl'.eos = cl.eos
           /\ \/ /\ cl'.pc = cl.pc /\ cl'.code = cl.code /\ cl'.step = cl.step + 1
                 /\ GraphicsStep(GraphicsSetup[cl.step + 1])
              \/ /\ cl'.pc = "shutdown" /\ cl'.code = 3 /\ cl'.step = cl.step
                 /\ \E left \in SUBSET Leftovers : graphics' = graphics \cup left
           /\ Apart
<1> DEFINE object == GraphicsSetup[cl.step + 1]
<1>1. cl.pc = "graphics" /\ cl.step < Len(GraphicsSetup) /\ Apart
  BY Zenon DEF InitializeGraphics, Apart, mainOnly
<1>2. CASE outcome = "made"
  <2>1. /\ graphics' = graphics \cup {object} /\ cl' = [cl EXCEPT !.step = @ + 1]
        /\ object \in Dependent => GraphicsNeeds(object) \subseteq graphics
        /\ Checked(object) \subseteq graphics
    BY <1>2 DEF InitializeGraphics
  <2>2. GraphicsStep(object)
    BY <2>1, Zenon DEF GraphicsStep
  <2> QED
    BY ONLY <1>1, <2>1, <2>2, ClientMainType DEF ClientMainType
<1>3. CASE outcome = "absent"
  <2>1. /\ graphics' = graphics /\ cl' = [cl EXCEPT !.step = @ + 1]
        /\ object \in Globals \cup EglObjects \/ object \in Dependent
    BY <1>3 DEF InitializeGraphics
  <2>2. GraphicsStep(object)
    BY <2>1, Zenon DEF GraphicsStep, Optional
  <2> QED
    BY ONLY <1>1, <2>1, <2>2, ClientMainType DEF ClientMainType
<1>4. CASE outcome = "failed"
  <2>1. /\ cl' = [cl EXCEPT !.pc = "shutdown", !.code = 3]
        /\ \E left \in SetupLeaves(object) : graphics' = graphics \cup left
    BY <1>4 DEF InitializeGraphics
  <2>2. \E left \in SUBSET Leftovers : graphics' = graphics \cup left
    <3>1. \A left \in SetupLeaves(object) : left \in SUBSET Leftovers
      BY DEF SetupLeaves, Leftovers
    <3> QED
      BY ONLY <2>1, <3>1, Zenon
  <2>3. cl'.pc = "shutdown" /\ cl'.code = 3 /\ cl'.step = cl.step /\ cl'.opt = cl.opt /\ cl'.eos = cl.eos
    BY ONLY <2>1, ClientMainType DEF ClientMainType
  <2> QED
    BY ONLY <1>1, <2>2, <2>3, Zenon
<1> QED
  BY <1>2, <1>3, <1>4 DEF Outcomes

LEMMA EstablishPhaseDoes ==
    ASSUME ClientMainType, NEW ok \in BOOLEAN, EstablishPhase(ok)
    PROVE  /\ cl.pc = "graphics" /\ cl'.opt = cl.opt /\ cl'.eos = cl.eos
           /\ cl.step = Len(GraphicsSetup)
           /\ \/ cl'.pc = cl.pc /\ cl'.code = cl.code /\ cl'.step = cl.step + 1
              \/ cl'.pc = "shutdown" /\ cl'.code = 3 /\ cl'.step = cl.step
           /\ Apart /\ graphics' = graphics
<1>1. /\ cl.pc = "graphics" /\ Apart /\ graphics' = graphics /\ cl.step = Len(GraphicsSetup)
      /\ \/ cl' = [cl EXCEPT !.step = @ + 1]
         \/ cl' = [cl EXCEPT !.pc = "shutdown", !.code = 3]
  BY Zenon DEF EstablishPhase, Apart, mainOnly
<1> QED
  BY ONLY <1>1, ClientMainType DEF ClientMainType

LEMMA StartPlayingDoes ==
    ASSUME ClientMainType, StreamType, PresenterType, NEW ok \in BOOLEAN, StartPlaying(ok)
    PROVE  /\ cl.pc = "graphics" /\ cl'.opt = cl.opt /\ cl'.eos = cl.eos /\ cl'.step = cl.step
           /\ UNCHANGED <<graphics, stamps, ready, stopping, flight, shown, alive, bus>>
           /\ \/ /\ cl'.pc = "wait" /\ cl'.code = cl.code /\ stream'.pc = "idle"
                 /\ stream'.fed = stream.fed /\ stream'.inside = stream.inside
                 /\ stream'.sample = stream.sample /\ stream'.queued = stream.queued
                 /\ presenter'.pc = (IF Threaded(cl.opt) THEN "check" ELSE "none")
                 /\ presenter'.stage = presenter.stage /\ presenter'.sample = presenter.sample
              \/ cl'.pc = "shutdown" /\ cl'.code = 4 /\ UNCHANGED <<stream, presenter>>
<1>1. /\ cl.pc = "graphics"
      /\ UNCHANGED <<graphics, stamps, ready, stopping, flight, shown, alive, bus>>
      /\ \/ /\ cl' = [cl EXCEPT !.pc = "wait"] /\ stream' = [stream EXCEPT !.pc = "idle"]
            /\ presenter' = [presenter EXCEPT
                               !.pc = IF Threaded(cl.opt) THEN "check" ELSE "none"]
         \/ cl' = [cl EXCEPT !.pc = "shutdown", !.code = 4] /\ UNCHANGED <<stream, presenter>>
  BY Zenon DEF StartPlaying
<1> QED
  BY ONLY <1>1, ClientMainType, StreamType, PresenterType, ZenonT(60)
  DEF ClientMainType, StreamType, PresenterType

LEMMA JoinAndStopDoes ==
    ASSUME ClientMainType, StreamType, NEW paced \in BOOLEAN, JoinAndStop(paced)
    PROVE  /\ cl.pc = "join" /\ presenter.pc \in {"none", "gone"}
           /\ stream.pc \in {"idle", "ended"}
           /\ cl'.pc = "shutdown" /\ cl'.opt = cl.opt /\ cl'.eos = cl.eos /\ cl'.step = cl.step
           /\ \/ /\ cl'.code = 0 /\ cl.eos /\ ~stopping.failed
                 /\ Len(shown) = cl.opt.frames
              \/ cl'.code = 1
           /\ stream'.pc = "off" /\ stream'.inside = <<>> /\ stream'.fed = stream.fed
           /\ stream'.sample = stream.sample /\ stream'.queued = stream.queued
           /\ UNCHANGED <<graphics, stamps, ready, stopping, presenter, flight, shown, alive, bus>>
<1>1. /\ cl.pc = "join" /\ presenter.pc \in {"none", "gone"} /\ stream.pc \in {"idle", "ended"}
      /\ \/ /\ cl' = [cl EXCEPT !.pc = "shutdown", !.code = 0] /\ cl.eos /\ ~stopping.failed
            /\ Len(shown) = cl.opt.frames
         \/ cl' = [cl EXCEPT !.pc = "shutdown", !.code = 1]
      /\ stream' = [stream EXCEPT !.pc = "off", !.inside = <<>>]
      /\ UNCHANGED <<graphics, stamps, ready, stopping, presenter, flight, shown, alive, bus>>
  BY DEF JoinAndStop
<1> QED
  BY ONLY <1>1, ClientMainType, StreamType DEF ClientMainType, StreamType

LEMMA ShutdownGraphicsDoes ==
    ASSUME ClientMainType, ShutdownGraphics
    PROVE  /\ cl.pc = "shutdown" /\ cl'.opt = cl.opt /\ cl'.eos = cl.eos /\ cl'.code = cl.code
           /\ cl'.step = cl.step /\ cl'.pc \in {"shutdown", "exit"} /\ Apart
<1>1. /\ cl.pc = "shutdown" /\ Apart /\ (cl' = cl \/ cl' = [cl EXCEPT !.pc = "exit"])
  BY Zenon DEF ShutdownGraphics, Apart, mainOnly
<1> QED
  BY ONLY <1>1, ClientMainType DEF ClientMainType

\* Every step keeps the places, part by part.
LEMMA ClientStartNext ==
    ASSUME ClientType, ClientStart, ClientMiddle, StreamPlace, PresenterPlace, Stopped, [ClientNext]_clientVars
    PROVE  ClientStart'
<1> USE DEF ClientType, ClientStart, ClientMiddle, StreamPlace, PresenterPlace, Stopped
<1>1. CASE ClientParse
  BY <1>1, ClientParseDoes DEF Apart
<1>2. CASE PopMessage
  BY <1>2, PopMessageDoes DEF Woken
<1>3. CASE ShutdownGraphics
  BY <1>3, ShutdownGraphicsDoes DEF Apart
<1>4. CASE OnNewSample
  BY <1>4, OnNewSampleDoes
<1>5. CASE PutReady
  BY <1>5, PutReadyDoes DEF Woken
<1>6. CASE TakeReady
  BY <1>6, TakeReadyDoes DEF Woken
<1>7. CASE AnnounceTaken
  BY <1>7, AnnounceTakenDoes DEF Woken
<1>8. CASE DispatchFails
  BY <1>8, DispatchFailsDoes DEF ProcessedFields, Woken
<1>9. CASE DrainAsyncFeedback
  BY <1>9, DrainDoes
<1>10. ASSUME NEW outcome \in Outcomes, InitializeGraphics(outcome) PROVE ClientStart'
  BY <1>10, InitializeGraphicsDoes DEF Apart
<1>11. ASSUME NEW ok \in BOOLEAN, EstablishPhase(ok) PROVE ClientStart'
  BY <1>11, EstablishPhaseDoes DEF Apart
<1>12. ASSUME NEW ok \in BOOLEAN, StartPlaying(ok) PROVE ClientStart'
  BY <1>12, StartPlayingDoes
<1>13. ASSUME NEW ok \in BOOLEAN, JoinAndStop(ok) PROVE ClientStart'
  BY <1>13, JoinAndStopDoes
<1>14. ASSUME NEW ok \in BOOLEAN, OnDecoderInput(ok) PROVE ClientStart'
  BY <1>14, OnDecoderInputDoes
<1>15. ASSUME NEW ok \in BOOLEAN, Admit(ok) PROVE ClientStart'
  BY <1>15, AdmitDoes DEF ProcessedFields, Stage, Woken
<1>16. ASSUME NEW ok \in BOOLEAN, CheckSample(ok) PROVE ClientStart'
  BY <1>16, CheckSampleDoes DEF ProcessedFields, Stage, Woken
<1>17. ASSUME NEW ok \in BOOLEAN, ImportAndPresent(ok) PROVE ClientStart'
  BY <1>17, ImportAndPresentDoes DEF ProcessedFields, Stage, Woken
<1>18. ASSUME NEW ok \in BOOLEAN, Roundtrip(ok) PROVE ClientStart'
  BY <1>18, RoundtripDoes DEF ProcessedFields, Woken
<1>19. ASSUME NEW how \in {"eos", "error"}, StreamEnds(how) PROVE ClientStart'
  BY <1>19, StreamEndsDoes
<1>20. ASSUME NEW feedback \in Feedbacks, OnFeedback(feedback) PROVE ClientStart'
  BY <1>20, OnFeedbackDoes DEF ProcessedFields, Woken
<1>21. ASSUME NEW feedback \in Feedbacks, OnAsyncFeedback(feedback) PROVE ClientStart'
  BY <1>21, OnAsyncFeedbackDoes DEF Dispatching
<1>22. CASE UNCHANGED clientVars
  BY <1>22 DEF clientVars
<1> QED
  BY <1>1, <1>2, <1>3, <1>4, <1>5, <1>6, <1>7, <1>8, <1>9, <1>10, <1>11,
     <1>12, <1>13, <1>14, <1>15, <1>16, <1>17, <1>18, <1>19, <1>20, <1>21, <1>22
    DEF ClientNext, ClientMain, Streaming, Presenting

LEMMA ClientMiddleNext ==
    ASSUME ClientType, ClientStart, ClientMiddle, StreamPlace, PresenterPlace, Stopped, [ClientNext]_clientVars
    PROVE  ClientMiddle'
<1> USE DEF ClientType, ClientStart, ClientMiddle, StreamPlace, PresenterPlace, Stopped
<1>1. CASE ClientParse
  BY <1>1, ClientParseDoes DEF Apart
<1>2. CASE PopMessage
  BY <1>2, PopMessageDoes DEF Woken
<1>3. CASE ShutdownGraphics
  BY <1>3, ShutdownGraphicsDoes DEF Apart
<1>4. CASE OnNewSample
  BY <1>4, OnNewSampleDoes
<1>5. CASE PutReady
  BY <1>5, PutReadyDoes DEF Woken
<1>6. CASE TakeReady
  BY <1>6, TakeReadyDoes DEF Woken
<1>7. CASE AnnounceTaken
  BY <1>7, AnnounceTakenDoes DEF Woken
<1>8. CASE DispatchFails
  BY <1>8, DispatchFailsDoes DEF ProcessedFields, Woken
<1>9. CASE DrainAsyncFeedback
  BY <1>9, DrainDoes
<1>10. ASSUME NEW outcome \in Outcomes, InitializeGraphics(outcome) PROVE ClientMiddle'
  BY <1>10, InitializeGraphicsDoes DEF Apart
<1>11. ASSUME NEW ok \in BOOLEAN, EstablishPhase(ok) PROVE ClientMiddle'
  BY <1>11, EstablishPhaseDoes DEF Apart
<1>12. ASSUME NEW ok \in BOOLEAN, StartPlaying(ok) PROVE ClientMiddle'
  BY <1>12, StartPlayingDoes
<1>13. ASSUME NEW ok \in BOOLEAN, JoinAndStop(ok) PROVE ClientMiddle'
  BY <1>13, JoinAndStopDoes
<1>14. ASSUME NEW ok \in BOOLEAN, OnDecoderInput(ok) PROVE ClientMiddle'
  BY <1>14, OnDecoderInputDoes
<1>15. ASSUME NEW ok \in BOOLEAN, Admit(ok) PROVE ClientMiddle'
  BY <1>15, AdmitDoes DEF ProcessedFields, Stage, Woken
<1>16. ASSUME NEW ok \in BOOLEAN, CheckSample(ok) PROVE ClientMiddle'
  BY <1>16, CheckSampleDoes DEF ProcessedFields, Stage, Woken
<1>17. ASSUME NEW ok \in BOOLEAN, ImportAndPresent(ok) PROVE ClientMiddle'
  BY <1>17, ImportAndPresentDoes DEF ProcessedFields, Stage, Woken
<1>18. ASSUME NEW ok \in BOOLEAN, Roundtrip(ok) PROVE ClientMiddle'
  BY <1>18, RoundtripDoes DEF ProcessedFields, Woken
<1>19. ASSUME NEW how \in {"eos", "error"}, StreamEnds(how) PROVE ClientMiddle'
  BY <1>19, StreamEndsDoes
<1>20. ASSUME NEW feedback \in Feedbacks, OnFeedback(feedback) PROVE ClientMiddle'
  BY <1>20, OnFeedbackDoes DEF ProcessedFields, Woken
<1>21. ASSUME NEW feedback \in Feedbacks, OnAsyncFeedback(feedback) PROVE ClientMiddle'
  BY <1>21, OnAsyncFeedbackDoes DEF Dispatching
<1>22. CASE UNCHANGED clientVars
  BY <1>22 DEF clientVars
<1> QED
  BY <1>1, <1>2, <1>3, <1>4, <1>5, <1>6, <1>7, <1>8, <1>9, <1>10, <1>11,
     <1>12, <1>13, <1>14, <1>15, <1>16, <1>17, <1>18, <1>19, <1>20, <1>21, <1>22
    DEF ClientNext, ClientMain, Streaming, Presenting

LEMMA StreamPlaceNext ==
    ASSUME ClientType, ClientStart, ClientMiddle, StreamPlace, PresenterPlace, Stopped, [ClientNext]_clientVars
    PROVE  StreamPlace'
<1> USE DEF ClientType, ClientStart, ClientMiddle, StreamPlace, PresenterPlace, Stopped, Holds
<1>1. CASE ClientParse
  BY <1>1, ClientParseDoes DEF Apart
<1>2. CASE PopMessage
  BY <1>2, PopMessageDoes DEF Woken
<1>3. CASE ShutdownGraphics
  BY <1>3, ShutdownGraphicsDoes DEF Apart
<1>4. CASE OnNewSample
  BY <1>4, OnNewSampleDoes
<1>5. CASE PutReady
  BY <1>5, PutReadyDoes DEF Woken
<1>6. CASE TakeReady
  BY <1>6, TakeReadyDoes DEF Woken
<1>7. CASE AnnounceTaken
  BY <1>7, AnnounceTakenDoes DEF Woken
<1>8. CASE DispatchFails
  BY <1>8, DispatchFailsDoes DEF ProcessedFields, Woken
<1>9. CASE DrainAsyncFeedback
  BY <1>9, DrainDoes
<1>10. ASSUME NEW outcome \in Outcomes, InitializeGraphics(outcome) PROVE StreamPlace'
  BY <1>10, InitializeGraphicsDoes DEF Apart
<1>11. ASSUME NEW ok \in BOOLEAN, EstablishPhase(ok) PROVE StreamPlace'
  BY <1>11, EstablishPhaseDoes DEF Apart
<1>12. ASSUME NEW ok \in BOOLEAN, StartPlaying(ok) PROVE StreamPlace'
  BY <1>12, StartPlayingDoes
<1>13. ASSUME NEW ok \in BOOLEAN, JoinAndStop(ok) PROVE StreamPlace'
  BY <1>13, JoinAndStopDoes
<1>14. ASSUME NEW ok \in BOOLEAN, OnDecoderInput(ok) PROVE StreamPlace'
  BY <1>14, OnDecoderInputDoes
<1>15. ASSUME NEW ok \in BOOLEAN, Admit(ok) PROVE StreamPlace'
  BY <1>15, AdmitDoes DEF ProcessedFields, Stage, Woken
<1>16. ASSUME NEW ok \in BOOLEAN, CheckSample(ok) PROVE StreamPlace'
  BY <1>16, CheckSampleDoes DEF ProcessedFields, Stage, Woken
<1>17. ASSUME NEW ok \in BOOLEAN, ImportAndPresent(ok) PROVE StreamPlace'
  BY <1>17, ImportAndPresentDoes DEF ProcessedFields, Stage, Woken
<1>18. ASSUME NEW ok \in BOOLEAN, Roundtrip(ok) PROVE StreamPlace'
  BY <1>18, RoundtripDoes DEF ProcessedFields, Woken
<1>19. ASSUME NEW how \in {"eos", "error"}, StreamEnds(how) PROVE StreamPlace'
  BY <1>19, StreamEndsDoes
<1>20. ASSUME NEW feedback \in Feedbacks, OnFeedback(feedback) PROVE StreamPlace'
  BY <1>20, OnFeedbackDoes DEF ProcessedFields, Woken
<1>21. ASSUME NEW feedback \in Feedbacks, OnAsyncFeedback(feedback) PROVE StreamPlace'
  BY <1>21, OnAsyncFeedbackDoes DEF Dispatching
<1>22. CASE UNCHANGED clientVars
  BY <1>22 DEF clientVars
<1> QED
  BY <1>1, <1>2, <1>3, <1>4, <1>5, <1>6, <1>7, <1>8, <1>9, <1>10, <1>11,
     <1>12, <1>13, <1>14, <1>15, <1>16, <1>17, <1>18, <1>19, <1>20, <1>21, <1>22
    DEF ClientNext, ClientMain, Streaming, Presenting

LEMMA PresenterPlaceNext ==
    ASSUME ClientType, ClientStart, ClientMiddle, StreamPlace, PresenterPlace, Stopped, [ClientNext]_clientVars
    PROVE  PresenterPlace'
<1> USE DEF ClientType, ClientStart, ClientMiddle, StreamPlace, PresenterPlace, Stopped, Holds, Async, Threaded
<1>1. CASE ClientParse
  BY <1>1, ClientParseDoes DEF Apart
<1>2. CASE PopMessage
  BY <1>2, PopMessageDoes DEF Woken
<1>3. CASE ShutdownGraphics
  BY <1>3, ShutdownGraphicsDoes DEF Apart
<1>4. CASE OnNewSample
  <2>1. stream'.sample = <<[frame |-> Head(stream.inside), stamp |-> Head(stream.inside)]>>
    BY <1>4, OnNewSampleDoes
  <2>2. Len(stream'.sample) = 1
    BY ONLY <2>1
  <2> QED
    BY <1>4, <2>2, OnNewSampleDoes
<1>5. CASE PutReady
  BY <1>5, PutReadyDoes DEF Woken
<1>6. CASE TakeReady
  <2>1. ready # <<>> => Len(ready) = 1
    BY ONLY SamplesType, OneLong DEF SamplesType
  <2> QED
    BY <1>6, <2>1, TakeReadyDoes DEF Woken
<1>7. CASE AnnounceTaken
  BY <1>7, AnnounceTakenDoes DEF Woken
<1>8. CASE DispatchFails
  BY <1>8, DispatchFailsDoes DEF ProcessedFields, Woken
<1>9. CASE DrainAsyncFeedback
  BY <1>9, DrainDoes
<1>10. ASSUME NEW outcome \in Outcomes, InitializeGraphics(outcome) PROVE PresenterPlace'
  BY <1>10, InitializeGraphicsDoes DEF Apart
<1>11. ASSUME NEW ok \in BOOLEAN, EstablishPhase(ok) PROVE PresenterPlace'
  BY <1>11, EstablishPhaseDoes DEF Apart
<1>12. ASSUME NEW ok \in BOOLEAN, StartPlaying(ok) PROVE PresenterPlace'
  BY <1>12, StartPlayingDoes
<1>13. ASSUME NEW ok \in BOOLEAN, JoinAndStop(ok) PROVE PresenterPlace'
  BY <1>13, JoinAndStopDoes
<1>14. ASSUME NEW ok \in BOOLEAN, OnDecoderInput(ok) PROVE PresenterPlace'
  BY <1>14, OnDecoderInputDoes
<1>15. ASSUME NEW ok \in BOOLEAN, Admit(ok) PROVE PresenterPlace'
  BY <1>15, AdmitDoes DEF ProcessedFields, Stage, Woken
<1>16. ASSUME NEW ok \in BOOLEAN, CheckSample(ok) PROVE PresenterPlace'
  BY <1>16, CheckSampleDoes DEF ProcessedFields, Stage, Woken
<1>17. ASSUME NEW ok \in BOOLEAN, ImportAndPresent(ok) PROVE PresenterPlace'
  BY <1>17, ImportAndPresentDoes DEF ProcessedFields, Stage, Woken
<1>18. ASSUME NEW ok \in BOOLEAN, Roundtrip(ok) PROVE PresenterPlace'
  BY <1>18, RoundtripDoes DEF ProcessedFields, Woken
<1>19. ASSUME NEW how \in {"eos", "error"}, StreamEnds(how) PROVE PresenterPlace'
  BY <1>19, StreamEndsDoes
<1>20. ASSUME NEW feedback \in Feedbacks, OnFeedback(feedback) PROVE PresenterPlace'
  BY <1>20, OnFeedbackDoes DEF ProcessedFields, Woken
<1>21. ASSUME NEW feedback \in Feedbacks, OnAsyncFeedback(feedback) PROVE PresenterPlace'
  BY <1>21, OnAsyncFeedbackDoes DEF Dispatching
<1>22. CASE UNCHANGED clientVars
  BY <1>22 DEF clientVars
<1> QED
  BY <1>1, <1>2, <1>3, <1>4, <1>5, <1>6, <1>7, <1>8, <1>9, <1>10, <1>11,
     <1>12, <1>13, <1>14, <1>15, <1>16, <1>17, <1>18, <1>19, <1>20, <1>21, <1>22
    DEF ClientNext, ClientMain, Streaming, Presenting

LEMMA StoppedNext ==
    ASSUME ClientType, ClientStart, ClientMiddle, StreamPlace, PresenterPlace, Stopped, [ClientNext]_clientVars
    PROVE  Stopped'
<1> USE DEF ClientType, ClientStart, ClientMiddle, StreamPlace, PresenterPlace, Stopped, Holds, Async, Threaded
<1>1. CASE ClientParse
  BY <1>1, ClientParseDoes DEF Apart
<1>2. CASE PopMessage
  BY <1>2, PopMessageDoes DEF Woken
<1>3. CASE ShutdownGraphics
  BY <1>3, ShutdownGraphicsDoes DEF Apart
<1>4. CASE OnNewSample
  BY <1>4, OnNewSampleDoes
<1>5. CASE PutReady
  BY <1>5, PutReadyDoes DEF Woken
<1>6. CASE TakeReady
  BY <1>6, TakeReadyDoes DEF Woken
<1>7. CASE AnnounceTaken
  BY <1>7, AnnounceTakenDoes DEF Woken
<1>8. CASE DispatchFails
  BY <1>8, DispatchFailsDoes DEF ProcessedFields, Woken
<1>9. CASE DrainAsyncFeedback
  BY <1>9, DrainDoes
<1>10. ASSUME NEW outcome \in Outcomes, InitializeGraphics(outcome) PROVE Stopped'
  BY <1>10, InitializeGraphicsDoes DEF Apart
<1>11. ASSUME NEW ok \in BOOLEAN, EstablishPhase(ok) PROVE Stopped'
  BY <1>11, EstablishPhaseDoes DEF Apart
<1>12. ASSUME NEW ok \in BOOLEAN, StartPlaying(ok) PROVE Stopped'
  BY <1>12, StartPlayingDoes
<1>13. ASSUME NEW ok \in BOOLEAN, JoinAndStop(ok) PROVE Stopped'
  BY <1>13, JoinAndStopDoes
<1>14. ASSUME NEW ok \in BOOLEAN, OnDecoderInput(ok) PROVE Stopped'
  BY <1>14, OnDecoderInputDoes
<1>15. ASSUME NEW ok \in BOOLEAN, Admit(ok) PROVE Stopped'
  BY <1>15, AdmitDoes DEF ProcessedFields, Stage, Woken
<1>16. ASSUME NEW ok \in BOOLEAN, CheckSample(ok) PROVE Stopped'
  BY <1>16, CheckSampleDoes DEF ProcessedFields, Stage, Woken
<1>17. ASSUME NEW ok \in BOOLEAN, ImportAndPresent(ok) PROVE Stopped'
  BY <1>17, ImportAndPresentDoes DEF ProcessedFields, Stage, Woken
<1>18. ASSUME NEW ok \in BOOLEAN, Roundtrip(ok) PROVE Stopped'
  BY <1>18, RoundtripDoes DEF ProcessedFields, Woken
<1>19. ASSUME NEW how \in {"eos", "error"}, StreamEnds(how) PROVE Stopped'
  BY <1>19, StreamEndsDoes
<1>20. ASSUME NEW feedback \in Feedbacks, OnFeedback(feedback) PROVE Stopped'
  BY <1>20, OnFeedbackDoes DEF ProcessedFields, Woken
<1>21. ASSUME NEW feedback \in Feedbacks, OnAsyncFeedback(feedback) PROVE Stopped'
  BY <1>21, OnAsyncFeedbackDoes DEF Dispatching
<1>22. CASE UNCHANGED clientVars
  BY <1>22 DEF clientVars
<1> QED
  BY <1>1, <1>2, <1>3, <1>4, <1>5, <1>6, <1>7, <1>8, <1>9, <1>10, <1>11,
     <1>12, <1>13, <1>14, <1>15, <1>16, <1>17, <1>18, <1>19, <1>20, <1>21, <1>22
    DEF ClientNext, ClientMain, Streaming, Presenting

\* What the synchronous modes wait for is in flight.
LEMMA FeedbackOwed ==
    ASSUME SamplesType, FlightRoom, presenter.stage = "feedback"
    PROVE  Len(flight) = 1 /\ flight # <<>> /\ ~Async(cl.opt)
<1>1. Len(flight) = 1 /\ ~Async(cl.opt)
  BY DEF FlightRoom
<1> QED
  BY <1>1

\* The rest of the types.
LEMMA SamplesTypeNext ==
    ASSUME ClientType, ClientStart, ClientMiddle, StreamPlace, PresenterPlace, Stopped, FlightRoom, [ClientNext]_clientVars
    PROVE  SamplesType'
<1> USE HandTypes DEF ClientType, ClientStart, ClientMiddle, StreamPlace, PresenterPlace, Stopped, SamplesType, Holds
<1>1. CASE ClientParse
  BY <1>1, ClientParseDoes DEF Apart
<1>2. CASE PopMessage
  BY <1>2, PopMessageDoes DEF Woken
<1>3. CASE ShutdownGraphics
  BY <1>3, ShutdownGraphicsDoes DEF Apart
<1>4. CASE OnNewSample
  <2>1. /\ UNCHANGED <<ready, flight, shown, bus>> /\ stamps' = Tail(stream.inside)
        /\ alive' = alive \cup {Head(stream.inside)} /\ stream.inside # <<>>
    BY <1>4, OnNewSampleDoes
  <2>2. stream.inside \in Seq(Numbers) /\ Tail(stream.inside) \in Seq(Numbers)
    BY <2>1, HandTypes DEF StreamType
  <2>8. /\ stamps' \in Seq(Numbers) /\ ready' \in Seq(Samples) /\ Len(ready') <= 1
        /\ flight' \in Seq(Samples) /\ shown' \in Seq(Samples)
    BY ONLY <2>1, <2>2, SamplesType, EmptyTypes, Zenon DEF SamplesType
  <2>9. alive' \subseteq Numbers /\ bus' \in {"none", "eos", "error"}
    BY ONLY <2>1, <2>2, SamplesType DEF SamplesType
  <2> QED
    BY ONLY <2>8, <2>9 DEF SamplesType
<1>5. CASE PutReady
  <2>1. UNCHANGED <<stamps, flight, shown>> /\ alive' \subseteq Numbers
        /\ bus' \in {"none", "eos", "error"}
    BY <1>5, PutReadyDoes DEF SamplesType
  <2>2. ready' = ready \/ (ready' = stream.sample /\ Len(stream.sample) <= 1)
    <3>1. ready' = ready \/ (ready' = stream.sample /\ Len(stream.sample) = 1)
      BY <1>5, PutReadyDoes
    <3>2. \A n : n = 1 => n <= 1
      OBVIOUS
    <3> QED
      BY ONLY <3>1, <3>2, Zenon
  <2>3. stream.sample \in Seq(Samples)
    BY DEF StreamType
  <2>8. /\ stamps' \in Seq(Numbers) /\ ready' \in Seq(Samples) /\ Len(ready') <= 1
        /\ flight' \in Seq(Samples) /\ shown' \in Seq(Samples)
    BY ONLY <2>1, <2>2, <2>3, SamplesType, EmptyTypes, Zenon DEF SamplesType
  <2>9. alive' \subseteq Numbers /\ bus' \in {"none", "eos", "error"}
    BY ONLY <2>1, <2>2, <2>3, SamplesType DEF SamplesType
  <2> QED
    BY ONLY <2>8, <2>9 DEF SamplesType
<1>6. CASE TakeReady
  <2>1. UNCHANGED <<stamps, flight, shown, bus>> /\ alive' \subseteq alive
        /\ (ready' = ready \/ ready' = <<>>)
    BY <1>6, TakeReadyDoes, Zenon
  <2>8. /\ stamps' \in Seq(Numbers) /\ ready' \in Seq(Samples) /\ Len(ready') <= 1
        /\ flight' \in Seq(Samples) /\ shown' \in Seq(Samples)
    BY ONLY <2>1, SamplesType, EmptyTypes, Zenon DEF SamplesType
  <2>9. alive' \subseteq Numbers /\ bus' \in {"none", "eos", "error"}
    BY ONLY <2>1, SamplesType DEF SamplesType
  <2> QED
    BY ONLY <2>8, <2>9 DEF SamplesType
<1>7. CASE AnnounceTaken
  BY <1>7, AnnounceTakenDoes DEF Woken
<1>8. CASE DispatchFails
  BY <1>8, DispatchFailsDoes DEF ProcessedFields, Woken
<1>9. CASE DrainAsyncFeedback
  BY <1>9, DrainDoes
<1>10. ASSUME NEW outcome \in Outcomes, InitializeGraphics(outcome) PROVE SamplesType'
  BY <1>10, InitializeGraphicsDoes DEF Apart
<1>11. ASSUME NEW ok \in BOOLEAN, EstablishPhase(ok) PROVE SamplesType'
  BY <1>11, EstablishPhaseDoes DEF Apart
<1>12. ASSUME NEW ok \in BOOLEAN, StartPlaying(ok) PROVE SamplesType'
  BY <1>12, StartPlayingDoes
<1>13. ASSUME NEW ok \in BOOLEAN, JoinAndStop(ok) PROVE SamplesType'
  BY <1>13, JoinAndStopDoes
<1>14. ASSUME NEW ok \in BOOLEAN, OnDecoderInput(ok) PROVE SamplesType'
  <2>1. UNCHANGED <<ready, flight, shown, alive, bus>>
        /\ (stamps' = stamps \/ stamps' = Append(stamps, stream.fed + 1))
    BY <1>14, OnDecoderInputDoes
  <2>2. stream.fed + 1 \in Numbers
    BY HandTypes DEF StreamType
  <2>7. Append(stamps, stream.fed + 1) \in Seq(Numbers)
    BY ONLY <2>2, SamplesType, AppendIn DEF SamplesType
  <2>8. /\ stamps' \in Seq(Numbers) /\ ready' \in Seq(Samples) /\ Len(ready') <= 1
        /\ flight' \in Seq(Samples) /\ shown' \in Seq(Samples)
    BY ONLY <2>1, <2>2, <2>7, SamplesType, EmptyTypes, Zenon DEF SamplesType
  <2>9. alive' \subseteq Numbers /\ bus' \in {"none", "eos", "error"}
    BY ONLY <2>1, <2>2, SamplesType DEF SamplesType
  <2> QED
    BY ONLY <2>8, <2>9 DEF SamplesType
<1>15. ASSUME NEW ok \in BOOLEAN, Admit(ok) PROVE SamplesType'
  BY <1>15, AdmitDoes DEF ProcessedFields, Stage, Woken
<1>16. ASSUME NEW ok \in BOOLEAN, CheckSample(ok) PROVE SamplesType'
  BY <1>16, CheckSampleDoes DEF ProcessedFields, Stage, Woken
<1>17. ASSUME NEW ok \in BOOLEAN, ImportAndPresent(ok) PROVE SamplesType'
  <2>1. /\ UNCHANGED <<stamps, ready, shown>> /\ alive' \subseteq alive
        /\ bus' \in {"none", "eos", "error"}
        /\ (flight' = flight \/ flight' = Append(flight, presenter.sample[1]))
    BY <1>17, ImportAndPresentDoes DEF ProcessedFields, Stage, SamplesType
  <2>2. presenter.sample[1] \in Samples
    <3>1. presenter.sample \in Seq(Samples) /\ Len(presenter.sample) = 1
      BY <1>17, ImportAndPresentDoes DEF PresenterType
    <3> QED
      BY ONLY <3>1
  <2>7. Append(flight, presenter.sample[1]) \in Seq(Samples)
    BY ONLY <2>2, SamplesType, AppendIn DEF SamplesType
  <2>8. /\ stamps' \in Seq(Numbers) /\ ready' \in Seq(Samples) /\ Len(ready') <= 1
        /\ flight' \in Seq(Samples) /\ shown' \in Seq(Samples)
    BY ONLY <2>1, <2>2, <2>7, SamplesType, EmptyTypes, Zenon DEF SamplesType
  <2>9. alive' \subseteq Numbers /\ bus' \in {"none", "eos", "error"}
    BY ONLY <2>1, <2>2, SamplesType DEF SamplesType
  <2> QED
    BY ONLY <2>8, <2>9 DEF SamplesType
<1>18. ASSUME NEW ok \in BOOLEAN, Roundtrip(ok) PROVE SamplesType'
  BY <1>18, RoundtripDoes DEF ProcessedFields, Woken
<1>19. ASSUME NEW how \in {"eos", "error"}, StreamEnds(how) PROVE SamplesType'
  BY <1>19, StreamEndsDoes
<1>20. ASSUME NEW feedback \in Feedbacks, OnFeedback(feedback) PROVE SamplesType'
  <2>1. /\ UNCHANGED <<stamps, ready>> /\ alive' \subseteq alive /\ flight' = <<>>
        /\ bus' \in {"none", "eos", "error"}
        /\ (shown' = shown \/ shown' = Append(shown, Head(flight)))
    BY <1>20, OnFeedbackDoes DEF ProcessedFields, SamplesType
  <2>2. flight # <<>>
    BY <1>20, OnFeedbackDoes, FeedbackOwed
  <2>3. Head(flight) \in Samples
    BY ONLY <2>2, SamplesType DEF SamplesType
  <2>7. Append(shown, Head(flight)) \in Seq(Samples)
    BY ONLY <2>3, SamplesType, AppendIn DEF SamplesType
  <2>8. /\ stamps' \in Seq(Numbers) /\ ready' \in Seq(Samples) /\ Len(ready') <= 1
        /\ flight' \in Seq(Samples) /\ shown' \in Seq(Samples)
    BY ONLY <2>1, <2>3, <2>7, SamplesType, EmptyTypes, Zenon DEF SamplesType
  <2>9. alive' \subseteq Numbers /\ bus' \in {"none", "eos", "error"}
    BY ONLY <2>1, <2>3, SamplesType DEF SamplesType
  <2> QED
    BY ONLY <2>8, <2>9 DEF SamplesType
<1>21. ASSUME NEW feedback \in Feedbacks, OnAsyncFeedback(feedback) PROVE SamplesType'
  <2>1. /\ UNCHANGED <<stamps, ready, alive, bus>> /\ flight # <<>> /\ flight' = Tail(flight)
        /\ (shown' = shown \/ shown' = Append(shown, Head(flight)))
    BY <1>21, OnAsyncFeedbackDoes
  <2>2. Head(flight) \in Samples /\ Tail(flight) \in Seq(Samples)
    BY ONLY <2>1, SamplesType DEF SamplesType
  <2>7. Append(shown, Head(flight)) \in Seq(Samples)
    BY ONLY <2>2, SamplesType, AppendIn DEF SamplesType
  <2>8. /\ stamps' \in Seq(Numbers) /\ ready' \in Seq(Samples) /\ Len(ready') <= 1
        /\ flight' \in Seq(Samples) /\ shown' \in Seq(Samples)
    BY ONLY <2>1, <2>2, <2>7, SamplesType, EmptyTypes, Zenon DEF SamplesType
  <2>9. alive' \subseteq Numbers /\ bus' \in {"none", "eos", "error"}
    BY ONLY <2>1, <2>2, SamplesType DEF SamplesType
  <2> QED
    BY ONLY <2>8, <2>9 DEF SamplesType
<1>22. CASE UNCHANGED clientVars
  BY <1>22 DEF clientVars
<1> QED
  BY <1>1, <1>2, <1>3, <1>4, <1>5, <1>6, <1>7, <1>8, <1>9, <1>10, <1>11,
     <1>12, <1>13, <1>14, <1>15, <1>16, <1>17, <1>18, <1>19, <1>20, <1>21, <1>22
    DEF ClientNext, ClientMain, Streaming, Presenting

\* The limit, and that no step changes the command line.
LEMMA LimitPositive ==
    ASSUME ClientMainType
    PROVE  Limit \in Nat \ {0}
<1>1. cl.opt \in ClientOptions
  BY DEF ClientMainType
<1>2. cl.opt.limit \in Nat
  BY <1>1, ClientAssumption
<1> QED
  BY <1>2 DEF Limit

LEMMA CommandKept ==
    ASSUME ClientType, StreamPlace, [ClientNext]_clientVars
    PROVE  cl'.opt = cl.opt
<1> USE DEF ClientType
<1>1. CASE ClientParse
  BY <1>1, ClientParseDoes DEF Apart
<1>2. CASE PopMessage
  BY <1>2, PopMessageDoes DEF Woken
<1>3. CASE ShutdownGraphics
  BY <1>3, ShutdownGraphicsDoes DEF Apart
<1>4. CASE OnNewSample
  BY <1>4, OnNewSampleDoes
<1>5. CASE PutReady
  BY <1>5, PutReadyDoes DEF Woken
<1>6. CASE TakeReady
  BY <1>6, TakeReadyDoes DEF Woken
<1>7. CASE AnnounceTaken
  BY <1>7, AnnounceTakenDoes DEF Woken
<1>8. CASE DispatchFails
  BY <1>8, DispatchFailsDoes DEF ProcessedFields, Woken
<1>9. CASE DrainAsyncFeedback
  BY <1>9, DrainDoes
<1>10. ASSUME NEW outcome \in Outcomes, InitializeGraphics(outcome) PROVE cl'.opt = cl.opt
  BY <1>10, InitializeGraphicsDoes DEF Apart
<1>11. ASSUME NEW ok \in BOOLEAN, EstablishPhase(ok) PROVE cl'.opt = cl.opt
  BY <1>11, EstablishPhaseDoes DEF Apart
<1>12. ASSUME NEW ok \in BOOLEAN, StartPlaying(ok) PROVE cl'.opt = cl.opt
  BY <1>12, StartPlayingDoes
<1>13. ASSUME NEW ok \in BOOLEAN, JoinAndStop(ok) PROVE cl'.opt = cl.opt
  BY <1>13, JoinAndStopDoes
<1>14. ASSUME NEW ok \in BOOLEAN, OnDecoderInput(ok) PROVE cl'.opt = cl.opt
  BY <1>14, OnDecoderInputDoes
<1>15. ASSUME NEW ok \in BOOLEAN, Admit(ok) PROVE cl'.opt = cl.opt
  BY <1>15, AdmitDoes DEF ProcessedFields, Stage, Woken
<1>16. ASSUME NEW ok \in BOOLEAN, CheckSample(ok) PROVE cl'.opt = cl.opt
  BY <1>16, CheckSampleDoes DEF ProcessedFields, Stage, Woken
<1>17. ASSUME NEW ok \in BOOLEAN, ImportAndPresent(ok) PROVE cl'.opt = cl.opt
  BY <1>17, ImportAndPresentDoes DEF ProcessedFields, Stage, Woken
<1>18. ASSUME NEW ok \in BOOLEAN, Roundtrip(ok) PROVE cl'.opt = cl.opt
  BY <1>18, RoundtripDoes DEF ProcessedFields, Woken
<1>19. ASSUME NEW how \in {"eos", "error"}, StreamEnds(how) PROVE cl'.opt = cl.opt
  BY <1>19, StreamEndsDoes
<1>20. ASSUME NEW feedback \in Feedbacks, OnFeedback(feedback) PROVE cl'.opt = cl.opt
  BY <1>20, OnFeedbackDoes DEF ProcessedFields, Woken
<1>21. ASSUME NEW feedback \in Feedbacks, OnAsyncFeedback(feedback) PROVE cl'.opt = cl.opt
  BY <1>21, OnAsyncFeedbackDoes DEF Dispatching
<1>22. CASE UNCHANGED clientVars
  BY <1>22 DEF clientVars
<1> QED
  BY <1>1, <1>2, <1>3, <1>4, <1>5, <1>6, <1>7, <1>8, <1>9, <1>10, <1>11,
     <1>12, <1>13, <1>14, <1>15, <1>16, <1>17, <1>18, <1>19, <1>20, <1>21, <1>22
    DEF ClientNext, ClientMain, Streaming, Presenting

\* Every step keeps the room in flight, and what is left behind a failure.
LEMMA FlightRoomNext ==
    ASSUME ClientType, ClientStart, ClientMiddle, StreamPlace, PresenterPlace, Stopped, FlightRoom, [ClientNext]_clientVars
    PROVE  FlightRoom'
<1>a. cl'.opt = cl.opt
  BY CommandKept
<1>b. Limit' = Limit /\ Limit \in Nat \ {0}
  BY <1>a, LimitPositive DEF Limit, ClientType
<1>c. Len(flight) \in Nat /\ Len(<<>>) = 0
  BY DEF ClientType, SamplesType
<1> USE <1>a, <1>b, <1>c DEF ClientStart, ClientMiddle, PresenterPlace, FlightRoom, ClientType
<1>1. CASE ClientParse
  BY <1>1, ClientParseDoes DEF Apart
<1>2. CASE PopMessage
  BY <1>2, PopMessageDoes DEF Woken
<1>3. CASE ShutdownGraphics
  BY <1>3, ShutdownGraphicsDoes DEF Apart
<1>4. CASE OnNewSample
  BY <1>4, OnNewSampleDoes
<1>5. CASE PutReady
  BY <1>5, PutReadyDoes DEF Woken
<1>6. CASE TakeReady
  BY <1>6, TakeReadyDoes DEF Woken
<1>7. CASE AnnounceTaken
  BY <1>7, AnnounceTakenDoes DEF Woken
<1>8. CASE DispatchFails
  BY <1>8, DispatchFailsDoes DEF ProcessedFields, Woken
<1>9. CASE DrainAsyncFeedback
  BY <1>9, DrainDoes
<1>10. ASSUME NEW outcome \in Outcomes, InitializeGraphics(outcome) PROVE FlightRoom'
  BY <1>10, InitializeGraphicsDoes DEF Apart
<1>11. ASSUME NEW ok \in BOOLEAN, EstablishPhase(ok) PROVE FlightRoom'
  BY <1>11, EstablishPhaseDoes DEF Apart
<1>12. ASSUME NEW ok \in BOOLEAN, StartPlaying(ok) PROVE FlightRoom'
  BY <1>12, StartPlayingDoes
<1>13. ASSUME NEW ok \in BOOLEAN, JoinAndStop(ok) PROVE FlightRoom'
  BY <1>13, JoinAndStopDoes
<1>14. ASSUME NEW ok \in BOOLEAN, OnDecoderInput(ok) PROVE FlightRoom'
  BY <1>14, OnDecoderInputDoes
<1>15. ASSUME NEW ok \in BOOLEAN, Admit(ok) PROVE FlightRoom'
  BY <1>15, AdmitDoes DEF ProcessedFields, Stage, Woken
<1>16. ASSUME NEW ok \in BOOLEAN, CheckSample(ok) PROVE FlightRoom'
  BY <1>16, CheckSampleDoes DEF ProcessedFields, Stage, Woken
<1>17. ASSUME NEW ok \in BOOLEAN, ImportAndPresent(ok) PROVE FlightRoom'
  <2>1. /\ presenter.stage = "import" /\ cl' = cl
        /\ \/ ProcessedFields(FALSE) /\ flight' = flight
           \/ /\ Stage(IF Async(cl.opt) THEN "roundtrip" ELSE "feedback")
              /\ Len(flight') = Len(flight) + 1
    <3>1. Len(Append(flight, presenter.sample[1])) = Len(flight) + 1
      BY DEF SamplesType
    <3> QED
      BY <1>17, ImportAndPresentDoes, <3>1
  <2>2. cl.pc \notin {"options", "exit"}
    BY <2>1
  <2>3. CASE ProcessedFields(FALSE) /\ flight' = flight
    BY <2>1, <2>2, <2>3 DEF ProcessedFields
  <2>4. CASE /\ Stage(IF Async(cl.opt) THEN "roundtrip" ELSE "feedback")
             /\ Len(flight') = Len(flight) + 1
    <3>1. CASE Async(cl.opt)
      BY <2>1, <2>2, <2>4, <3>1 DEF Stage
    <3>2. CASE ~Async(cl.opt)
      BY <2>1, <2>2, <2>4, <3>2 DEF Stage
    <3> QED
      BY <3>1, <3>2
  <2> QED
    BY <2>1, <2>3, <2>4
<1>18. ASSUME NEW ok \in BOOLEAN, Roundtrip(ok) PROVE FlightRoom'
  BY <1>18, RoundtripDoes DEF ProcessedFields, Woken
<1>19. ASSUME NEW how \in {"eos", "error"}, StreamEnds(how) PROVE FlightRoom'
  BY <1>19, StreamEndsDoes
<1>20. ASSUME NEW feedback \in Feedbacks, OnFeedback(feedback) PROVE FlightRoom'
  <2>1. /\ presenter.stage = "feedback" /\ cl' = cl /\ flight' = <<>> /\ presenter'.stage = "none"
    BY <1>20, OnFeedbackDoes DEF ProcessedFields
  <2> QED
    BY <2>1
<1>21. ASSUME NEW feedback \in Feedbacks, OnAsyncFeedback(feedback) PROVE FlightRoom'
  <2>1. /\ UNCHANGED <<cl, presenter>> /\ flight # <<>> /\ flight' = Tail(flight) /\ Async(cl.opt)
    BY <1>21, OnAsyncFeedbackDoes
  <2>2. Len(flight') = Len(flight) - 1 /\ Len(flight') \in Nat
    BY ONLY <2>1, SamplesType DEF SamplesType
  <2> QED
    BY <2>1, <2>2
<1>22. CASE UNCHANGED clientVars
  BY <1>22 DEF clientVars
<1> QED
  BY <1>1, <1>2, <1>3, <1>4, <1>5, <1>6, <1>7, <1>8, <1>9, <1>10, <1>11,
     <1>12, <1>13, <1>14, <1>15, <1>16, <1>17, <1>18, <1>19, <1>20, <1>21, <1>22
    DEF ClientNext, ClientMain, Streaming, Presenting

LEMMA LeftBehindNext ==
    ASSUME ClientType, ClientStart, ClientMiddle, StreamPlace, PresenterPlace, Stopped, FlightRoom, LeftBehind, [ClientNext]_clientVars
    PROVE  LeftBehind'
<1>a. cl'.opt = cl.opt
  BY CommandKept
<1>c. ~Async(cl.opt) /\ presenter.stage = "none" => flight = <<>>
  BY DEF FlightRoom, ClientType, SamplesType
<1> USE <1>a, <1>c DEF ClientType, ClientStart, ClientMiddle, StreamPlace, PresenterPlace, Stopped, LeftBehind, Holds
<1>1. CASE ClientParse
  BY <1>1, ClientParseDoes DEF Apart
<1>2. CASE PopMessage
  BY <1>2, PopMessageDoes DEF Woken
<1>3. CASE ShutdownGraphics
  BY <1>3, ShutdownGraphicsDoes DEF Apart
<1>4. CASE OnNewSample
  BY <1>4, OnNewSampleDoes
<1>5. CASE PutReady
  BY <1>5, PutReadyDoes DEF Woken
<1>6. CASE TakeReady
  BY <1>6, TakeReadyDoes DEF Woken
<1>7. CASE AnnounceTaken
  BY <1>7, AnnounceTakenDoes DEF Woken
<1>8. CASE DispatchFails
  BY <1>8, DispatchFailsDoes DEF ProcessedFields, Woken
<1>9. CASE DrainAsyncFeedback
  BY <1>9, DrainDoes
<1>10. ASSUME NEW outcome \in Outcomes, InitializeGraphics(outcome) PROVE LeftBehind'
  BY <1>10, InitializeGraphicsDoes DEF Apart
<1>11. ASSUME NEW ok \in BOOLEAN, EstablishPhase(ok) PROVE LeftBehind'
  BY <1>11, EstablishPhaseDoes DEF Apart
<1>12. ASSUME NEW ok \in BOOLEAN, StartPlaying(ok) PROVE LeftBehind'
  BY <1>12, StartPlayingDoes
<1>13. ASSUME NEW ok \in BOOLEAN, JoinAndStop(ok) PROVE LeftBehind'
  <2>1. ~Threaded(cl.opt) => ~Async(cl.opt)
    BY DEF Threaded, Async
  <2>2. presenter.pc = "none" => ready = <<>> /\ flight = <<>>
    BY <1>13, <2>1, JoinAndStopDoes
  <2> QED
    BY <1>13, <2>2, JoinAndStopDoes
<1>14. ASSUME NEW ok \in BOOLEAN, OnDecoderInput(ok) PROVE LeftBehind'
  BY <1>14, OnDecoderInputDoes
<1>15. ASSUME NEW ok \in BOOLEAN, Admit(ok) PROVE LeftBehind'
  BY <1>15, AdmitDoes DEF ProcessedFields, Stage, Woken
<1>16. ASSUME NEW ok \in BOOLEAN, CheckSample(ok) PROVE LeftBehind'
  BY <1>16, CheckSampleDoes DEF ProcessedFields, Stage, Woken
<1>17. ASSUME NEW ok \in BOOLEAN, ImportAndPresent(ok) PROVE LeftBehind'
  BY <1>17, ImportAndPresentDoes DEF ProcessedFields, Stage, Woken
<1>18. ASSUME NEW ok \in BOOLEAN, Roundtrip(ok) PROVE LeftBehind'
  BY <1>18, RoundtripDoes DEF ProcessedFields, Woken
<1>19. ASSUME NEW how \in {"eos", "error"}, StreamEnds(how) PROVE LeftBehind'
  BY <1>19, StreamEndsDoes
<1>20. ASSUME NEW feedback \in Feedbacks, OnFeedback(feedback) PROVE LeftBehind'
  BY <1>20, OnFeedbackDoes DEF ProcessedFields, Woken
<1>21. ASSUME NEW feedback \in Feedbacks, OnAsyncFeedback(feedback) PROVE LeftBehind'
  BY <1>21, OnAsyncFeedbackDoes DEF Dispatching
<1>22. CASE UNCHANGED clientVars
  BY <1>22 DEF clientVars
<1> QED
  BY <1>1, <1>2, <1>3, <1>4, <1>5, <1>6, <1>7, <1>8, <1>9, <1>10, <1>11,
     <1>12, <1>13, <1>14, <1>15, <1>16, <1>17, <1>18, <1>19, <1>20, <1>21, <1>22
    DEF ClientNext, ClientMain, Streaming, Presenting

LEMMA FirstIn ==
    ASSUME NEW S, NEW s \in Seq(S), Len(s) = 1 \/ s # <<>>
    PROVE  s[1] \in S
OBVIOUS

LEMMA SampleFrames ==
    ASSUME NEW q \in Seq(Samples)
    PROVE  \A i \in 1..Len(q) :
             /\ q[i] \in Samples /\ q[i].frame \in Nat \ {0} /\ q[i].frame \in Nat
             /\ q[i].stamp \in Nat
<1>1. \A i \in 1..Len(q) : q[i] \in Samples
  OBVIOUS
<1>2. \A r \in Samples : r.frame \in Nat \ {0} /\ r.frame \in Nat /\ r.stamp \in Nat
  BY DEF Samples, Numbers
<1> QED
  BY ONLY <1>1, <1>2, Zenon

\* The marks are numbers, before a step and after it.
LEMMA MarksTyped ==
    ASSUME ClientType, StreamPlace, PresenterPlace
    PROVE  /\ InMark \in Nat /\ StreamMark \in Nat /\ ReadyMark \in Nat
           /\ FreshMark \in Nat /\ FlightMark \in Nat
<1> USE DEF ClientType, Samples, Numbers
<1>1. InMark \in Nat
  BY DEF InMark, StreamType
<1>2. StreamMark \in Nat
  <2>0. stream.sample \in Seq(Samples) /\ (Holds => Len(stream.sample) = 1)
    BY DEF StreamPlace, StreamType
  <2>1. Holds => stream.sample[1] \in Samples
    BY ONLY <2>0, FirstIn
  <2> QED
    BY <1>1, <2>1 DEF StreamMark
<1>3. ReadyMark \in Nat
  <2>1. ready # <<>> => ready[1] \in Samples
    BY OneLong DEF SamplesType
  <2> QED
    BY <1>2, <2>1 DEF ReadyMark
<1>4. FreshMark \in Nat
  <2>1. Fresh => Len(presenter.sample) = 1
    BY DEF PresenterPlace, Fresh
  <2>0. presenter.sample \in Seq(Samples)
    BY DEF PresenterType
  <2>2. Fresh => presenter.sample[1] \in Samples
    BY ONLY <2>0, <2>1, FirstIn
  <2> QED
    BY <1>3, <2>2 DEF FreshMark
<1>5. FlightMark \in Nat
  <2>1. flight # <<>> => flight[1] \in Samples
    BY ONLY SamplesType, FirstIn DEF SamplesType
  <2> QED
    BY <1>4, <2>1 DEF FlightMark
<1> QED
  BY <1>1, <1>2, <1>3, <1>4, <1>5

\* What is inside the decoder stays in order.
LEMMA InsideOrderNext ==
    ASSUME ClientType, StreamPlace, InsideOrder, [ClientNext]_clientVars
    PROVE  InsideOrder'
<1> USE DEF ClientType, InsideOrder
<1>1. CASE ClientParse
  BY <1>1, ClientParseDoes DEF Apart
<1>2. CASE PopMessage
  BY <1>2, PopMessageDoes DEF Woken
<1>3. CASE ShutdownGraphics
  BY <1>3, ShutdownGraphicsDoes DEF Apart
<1>4. CASE OnNewSample
  <2>1. stream.inside # <<>> /\ stream'.inside = Tail(stream.inside) /\ stream'.fed = stream.fed
    BY <1>4, OnNewSampleDoes
  <2>2. stream.inside \in Seq(Numbers)
    BY DEF StreamType
  <2>3. /\ Len(stream.inside) \in Nat \ {0} /\ Len(stream'.inside) = Len(stream.inside) - 1
        /\ \A i \in 1..Len(stream'.inside) :
             stream'.inside[i] = stream.inside[i + 1] /\ i + 1 \in 1..Len(stream.inside)
    BY ONLY <2>1, <2>2, TailIs
  <2>4. \A i \in 1..Len(stream'.inside) : stream'.inside[i] <= stream'.fed
    BY ONLY <2>1, <2>3, InsideOrder, Zenon DEF InsideOrder
  <2>5. \A i, j \in 1..Len(stream'.inside) : i < j => i + 1 < j + 1
    BY ONLY <2>3
  <2>6. \A i, j \in 1..Len(stream'.inside) : i < j => stream'.inside[i] < stream'.inside[j]
    BY ONLY <2>3, <2>5, InsideOrder, Zenon DEF InsideOrder
  <2> QED
    BY ONLY <2>4, <2>6 DEF InsideOrder
<1>5. CASE PutReady
  BY <1>5, PutReadyDoes DEF Woken
<1>6. CASE TakeReady
  BY <1>6, TakeReadyDoes DEF Woken
<1>7. CASE AnnounceTaken
  BY <1>7, AnnounceTakenDoes DEF Woken
<1>8. CASE DispatchFails
  BY <1>8, DispatchFailsDoes DEF ProcessedFields, Woken
<1>9. CASE DrainAsyncFeedback
  BY <1>9, DrainDoes
<1>10. ASSUME NEW outcome \in Outcomes, InitializeGraphics(outcome) PROVE InsideOrder'
  BY <1>10, InitializeGraphicsDoes DEF Apart
<1>11. ASSUME NEW ok \in BOOLEAN, EstablishPhase(ok) PROVE InsideOrder'
  BY <1>11, EstablishPhaseDoes DEF Apart
<1>12. ASSUME NEW ok \in BOOLEAN, StartPlaying(ok) PROVE InsideOrder'
  BY <1>12, StartPlayingDoes
<1>13. ASSUME NEW ok \in BOOLEAN, JoinAndStop(ok) PROVE InsideOrder'
  BY <1>13, JoinAndStopDoes
<1>14. ASSUME NEW ok \in BOOLEAN, OnDecoderInput(ok) PROVE InsideOrder'
  <2>1. /\ stream'.fed = stream.fed + 1
        /\ \/ stream'.inside = Append(stream.inside, stream.fed + 1)
           \/ stream'.inside = stream.inside
    BY <1>14, OnDecoderInputDoes
  <2>2. /\ stream.inside \in Seq(Numbers) /\ stream.fed \in Nat /\ stream.fed + 1 \in Numbers
        /\ \A i \in 1..Len(stream.inside) : stream.inside[i] \in Nat
    BY DEF StreamType, Numbers
  <2>3. CASE stream'.inside = Append(stream.inside, stream.fed + 1)
    <3>1. /\ Len(stream.inside) \in Nat /\ Len(stream'.inside) = Len(stream.inside) + 1
          /\ \A i \in 1..Len(stream.inside) : stream'.inside[i] = stream.inside[i]
          /\ stream'.inside[Len(stream.inside) + 1] = stream.fed + 1
      BY ONLY <2>2, <2>3, AppendIs
    <3>2. ASSUME NEW i \in 1..Len(stream'.inside)
          PROVE  stream'.inside[i] <= stream'.fed
      <4>1. CASE i = Len(stream.inside) + 1
        BY ONLY <2>1, <2>2, <3>1, <4>1
      <4>2. CASE i \in 1..Len(stream.inside)
        BY ONLY <2>1, <2>2, <3>1, <4>2, InsideOrder, SMTT(30) DEF InsideOrder
      <4> QED
        BY <3>1, <4>1, <4>2
    <3>3. ASSUME NEW i \in 1..Len(stream'.inside), NEW j \in 1..Len(stream'.inside), i < j
          PROVE  stream'.inside[i] < stream'.inside[j]
      <4>1. i \in 1..Len(stream.inside)
        BY ONLY <3>1, <3>3
      <4>2. CASE j = Len(stream.inside) + 1
        <5>1. stream.inside[i] <= stream.fed /\ stream.inside[i] \in Nat
          BY ONLY <2>2, <4>1, InsideOrder DEF InsideOrder
        <5>2. stream'.inside[i] = stream.inside[i] /\ stream'.inside[j] = stream.fed + 1
          BY ONLY <3>1, <4>1, <4>2
        <5> QED
          BY ONLY <2>2, <5>1, <5>2
      <4>3. CASE j \in 1..Len(stream.inside)
        BY ONLY <2>2, <3>1, <3>3, <4>1, <4>3, InsideOrder DEF InsideOrder
      <4> QED
        BY <3>1, <4>2, <4>3
    <3> QED
      BY <3>2, <3>3 DEF InsideOrder
  <2>4. CASE stream'.inside = stream.inside
    <3>1. ASSUME NEW i \in 1..Len(stream'.inside)
          PROVE  stream'.inside[i] <= stream'.fed
      BY ONLY <2>1, <2>2, <2>4, InsideOrder DEF InsideOrder
    <3>2. \A i, j \in 1..Len(stream'.inside) : i < j => stream'.inside[i] < stream'.inside[j]
      BY ONLY <2>4, InsideOrder, Zenon DEF InsideOrder
    <3> QED
      BY ONLY <3>1, <3>2, Zenon DEF InsideOrder
  <2> QED
    BY <2>1, <2>3, <2>4
<1>15. ASSUME NEW ok \in BOOLEAN, Admit(ok) PROVE InsideOrder'
  BY <1>15, AdmitDoes DEF ProcessedFields, Stage, Woken
<1>16. ASSUME NEW ok \in BOOLEAN, CheckSample(ok) PROVE InsideOrder'
  BY <1>16, CheckSampleDoes DEF ProcessedFields, Stage, Woken
<1>17. ASSUME NEW ok \in BOOLEAN, ImportAndPresent(ok) PROVE InsideOrder'
  BY <1>17, ImportAndPresentDoes DEF ProcessedFields, Stage, Woken
<1>18. ASSUME NEW ok \in BOOLEAN, Roundtrip(ok) PROVE InsideOrder'
  BY <1>18, RoundtripDoes DEF ProcessedFields, Woken
<1>19. ASSUME NEW how \in {"eos", "error"}, StreamEnds(how) PROVE InsideOrder'
  BY <1>19, StreamEndsDoes
<1>20. ASSUME NEW feedback \in Feedbacks, OnFeedback(feedback) PROVE InsideOrder'
  BY <1>20, OnFeedbackDoes DEF ProcessedFields, Woken
<1>21. ASSUME NEW feedback \in Feedbacks, OnAsyncFeedback(feedback) PROVE InsideOrder'
  BY <1>21, OnAsyncFeedbackDoes DEF Dispatching
<1>22. CASE UNCHANGED clientVars
  BY <1>22 DEF clientVars
<1> QED
  BY <1>1, <1>2, <1>3, <1>4, <1>5, <1>6, <1>7, <1>8, <1>9, <1>10, <1>11,
     <1>12, <1>13, <1>14, <1>15, <1>16, <1>17, <1>18, <1>19, <1>20, <1>21, <1>22
    DEF ClientNext, ClientMain, Streaming, Presenting

LEMMA MarksTypedNext ==
    ASSUME ClientType', StreamPlace', PresenterPlace'
    PROVE  /\ InMark' \in Nat /\ StreamMark' \in Nat /\ ReadyMark' \in Nat
           /\ FreshMark' \in Nat /\ FlightMark' \in Nat
<1> USE DEF ClientType, Samples, Numbers
<1>1. InMark' \in Nat
  BY DEF InMark, StreamType
<1>2. StreamMark' \in Nat
  <2>0. stream'.sample \in Seq(Samples) /\ (Holds' => Len(stream'.sample) = 1)
    BY DEF StreamPlace, StreamType
  <2>1. Holds' => stream'.sample[1] \in Samples
    BY ONLY <2>0, FirstIn
  <2> QED
    BY <1>1, <2>1 DEF StreamMark
<1>3. ReadyMark' \in Nat
  <2>1. ready' # <<>> => ready'[1] \in Samples
    BY OneLong DEF SamplesType
  <2> QED
    BY <1>2, <2>1 DEF ReadyMark
<1>4. FreshMark' \in Nat
  <2>1. Fresh' => Len(presenter'.sample) = 1
    BY DEF PresenterPlace, Fresh
  <2>0. presenter'.sample \in Seq(Samples)
    BY DEF PresenterType
  <2>2. Fresh' => presenter'.sample[1] \in Samples
    BY ONLY <2>0, <2>1, FirstIn
  <2> QED
    BY <1>3, <2>2 DEF FreshMark
<1>5. FlightMark' \in Nat
  <2>1. flight' # <<>> => flight'[1] \in Samples
    BY ONLY SamplesType', FirstIn DEF SamplesType
  <2> QED
    BY <1>4, <2>1 DEF FlightMark
<1> QED
  BY <1>1, <1>2, <1>3, <1>4, <1>5

\* Each mark is at most the one before it.
LEMMA MarksAscend ==
    ASSUME ClientType, StreamPlace, PresenterPlace, HandsOrder
    PROVE  FreshMark <= ReadyMark /\ ReadyMark <= StreamMark /\ StreamMark <= InMark
<1>1. InMark \in Nat /\ StreamMark \in Nat /\ ReadyMark \in Nat /\ FreshMark \in Nat
  BY MarksTyped
<1>2. StreamMark <= InMark
  BY <1>1 DEF StreamMark, HandsOrder
<1>3. ReadyMark <= StreamMark
  BY <1>1 DEF ReadyMark, HandsOrder
<1>4. FreshMark <= ReadyMark
  BY <1>1 DEF FreshMark, HandsOrder
<1> QED
  BY <1>2, <1>3, <1>4

\* The samples in hand are in order after the step, and none it passes on is older than one
\* that has gone before.
HandsGrow == HandsOrder' /\ FreshMark' >= FreshMark

\* The step leaves the streaming thread's hands and the slot as they are, and the presenter
\* keeps its sample or gives it up.
HandsKept ==
    /\ stream'.inside = stream.inside /\ stream'.fed = stream.fed /\ ready' = ready
    /\ Holds' <=> Holds
    /\ Holds => stream'.sample = stream.sample
    /\ (Fresh /\ presenter'.sample = presenter.sample) \/ ~Fresh'

LEMMA HandsKeptGrow ==
    ASSUME ClientType, StreamPlace, PresenterPlace, HandsOrder, HandsKept
    PROVE  HandsGrow
<1>1. InMark' = InMark
  BY DEF HandsKept, InMark
<1>2. StreamMark' = StreamMark
  BY <1>1 DEF HandsKept, StreamMark
<1>3. ReadyMark' = ReadyMark
  BY <1>2 DEF HandsKept, ReadyMark
<1>4. HandsOrder'
  BY <1>1, <1>2, <1>3 DEF HandsKept, HandsOrder
<1>5. FreshMark' >= FreshMark
  <2>1. FreshMark \in Nat /\ ReadyMark \in Nat
    BY MarksTyped
  <2>2. FreshMark <= ReadyMark
    <3>1. CASE Fresh
      BY <2>1, <3>1 DEF HandsOrder, FreshMark
    <3>2. CASE ~Fresh
      BY <2>1, <3>2 DEF FreshMark
    <3> QED
      BY <3>1, <3>2
  <2>3. FreshMark' = FreshMark \/ FreshMark' = ReadyMark
    BY <1>3 DEF FreshMark, HandsKept
  <2> QED
    BY ONLY <2>1, <2>2, <2>3
<1> QED
  BY <1>4, <1>5 DEF HandsGrow

\* The decoder moves on, and what the threads hold stays.
LEMMA InsideGrows ==
    ASSUME ClientType, StreamPlace, PresenterPlace, HandsOrder,
           ClientType', StreamPlace', PresenterPlace',
           InMark' >= InMark, Holds' <=> Holds, Holds => stream'.sample = stream.sample,
           UNCHANGED <<ready, presenter>>
    PROVE  HandsGrow
<1>1. /\ InMark \in Nat /\ StreamMark \in Nat /\ ReadyMark \in Nat /\ FreshMark \in Nat
      /\ InMark' \in Nat /\ StreamMark' \in Nat /\ ReadyMark' \in Nat /\ FreshMark' \in Nat
  BY MarksTyped, MarksTypedNext
<1>2. StreamMark' >= StreamMark
  BY <1>1 DEF StreamMark
<1>3. ReadyMark' >= ReadyMark
  BY <1>1, <1>2 DEF ReadyMark
<1>4. FreshMark' >= FreshMark
  BY <1>1, <1>3 DEF FreshMark, Fresh
<1>5. Holds' => stream'.sample[1].frame < InMark'
  BY <1>1 DEF HandsOrder, StreamMark
<1>6. ready' # <<>> => ready'[1].frame < StreamMark'
  BY <1>1, <1>2 DEF HandsOrder, ReadyMark
<1>7. Fresh' => presenter'.sample[1].frame < ReadyMark'
  BY <1>1, <1>3 DEF HandsOrder, FreshMark, Fresh
<1> QED
  BY <1>4, <1>5, <1>6, <1>7 DEF HandsGrow, HandsOrder

LEMMA HandsNext ==
    ASSUME ClientType, ClientStart, ClientMiddle, StreamPlace, PresenterPlace, StreamPlace', PresenterPlace', ClientType', InsideOrder, InsideOrder', HandsOrder, [ClientNext]_clientVars
    PROVE  HandsGrow
<1> USE DEF ClientType, ClientStart, StreamPlace, PresenterPlace
<1>1. CASE ClientParse
  <2>1. HandsKept
    BY <1>1, ClientParseDoes DEF Apart, HandsKept, Holds, Fresh
  <2> QED
    BY <2>1, HandsKeptGrow
<1>2. CASE PopMessage
  <2>1. HandsKept
    BY <1>2, PopMessageDoes DEF Woken, HandsKept, Holds, Fresh
  <2> QED
    BY <2>1, HandsKeptGrow
<1>3. CASE ShutdownGraphics
  <2>1. HandsKept
    BY <1>3, ShutdownGraphicsDoes DEF Apart, HandsKept, Holds, Fresh
  <2> QED
    BY <2>1, HandsKeptGrow
<1>4. CASE OnNewSample
  <2> DEFINE next == Head(stream.inside)
  <2>1. /\ stream.pc = "idle" /\ stream.inside # <<>> /\ stream'.inside = Tail(stream.inside)
        /\ stream'.fed = stream.fed /\ ready' = ready
        /\ stream'.sample = <<[frame |-> next, stamp |-> next]>>
    BY <1>4, OnNewSampleDoes
  <2>2. stream.inside \in Seq(Numbers) /\ stream.fed \in Nat
    BY DEF StreamType
  <2>3. /\ next = stream.inside[1] /\ next \in Nat /\ 1 \in 1..Len(stream.inside)
        /\ stream'.inside # <<>> => /\ stream'.inside[1] = stream.inside[2]
                                  /\ 2 \in 1..Len(stream.inside)
    BY ONLY <2>1, <2>2, TailIs DEF Numbers
  <2>4. next <= stream.fed /\ (stream'.inside # <<>> => next < stream'.inside[1])
    BY <2>3 DEF InsideOrder
  <2>5. /\ InMark \in Nat /\ StreamMark \in Nat /\ ReadyMark \in Nat /\ FreshMark \in Nat
        /\ InMark' \in Nat /\ StreamMark' \in Nat /\ ReadyMark' \in Nat /\ FreshMark' \in Nat
    BY MarksTyped, MarksTypedNext
  <2> HIDE DEF next
  <2>6. InMark = next /\ next < InMark'
    <3>1. InMark = next
      BY <2>1, <2>3 DEF InMark
    <3>2. CASE stream'.inside = <<>>
      BY <2>1, <2>2, <2>3, <2>4, <3>1, <3>2, SMTT(30) DEF InMark
    <3>3. CASE stream'.inside # <<>>
      BY <2>4, <3>1, <3>3 DEF InMark
    <3> QED
      BY <3>1, <3>2, <3>3
  <2>7. ~Holds /\ StreamMark = next /\ stream'.sample[1].frame = next
    <3>1. ~Holds /\ StreamMark = next
      BY <2>1, <2>6 DEF Holds, StreamMark
    <3> QED
      BY ONLY <2>1, <3>1
  <2>8. CASE Threaded(cl.opt)
    <3>1. Holds' /\ presenter' = presenter
      BY <1>4, <2>8, OnNewSampleDoes DEF Holds
    <3>2. StreamMark' = StreamMark
      BY <2>7, <3>1 DEF StreamMark
    <3>3. ReadyMark' = ReadyMark
      BY <2>1, <3>2 DEF ReadyMark
    <3>4. FreshMark' = FreshMark
      BY <3>1, <3>3 DEF FreshMark, Fresh
    <3> QED
      BY <2>1, <2>5, <2>6, <2>7, <3>1, <3>2, <3>3, <3>4 DEF HandsGrow, HandsOrder, Fresh
  <2>9. CASE ~Threaded(cl.opt)
    <3>1. /\ ~Holds' /\ ready = <<>> /\ presenter'.pc = presenter.pc /\ presenter.pc = "none"
          /\ presenter'.stage = "admit" /\ presenter'.sample = stream'.sample
          /\ presenter.stage = "none"
      BY <1>4, <2>1, <2>9, OnNewSampleDoes DEF Holds
    <3>2. ~Fresh /\ Fresh' /\ FreshMark = next /\ FreshMark' = next
      BY <2>7, <3>1 DEF Fresh, FreshMark, ReadyMark
    <3>3. ReadyMark' = InMark'
      BY <2>1, <3>1 DEF ReadyMark, StreamMark
    <3> QED
      BY <2>1, <2>5, <2>6, <2>7, <3>1, <3>2, <3>3 DEF HandsGrow, HandsOrder
  <2> QED
    BY <2>8, <2>9
<1>5. CASE PutReady
  <2> USE MarksTyped, MarksTypedNext, MarksAscend
  <2>1. /\ Holds /\ stream'.inside = stream.inside /\ stream'.fed = stream.fed
        /\ (Fresh' <=> Fresh) /\ presenter'.sample = presenter.sample
    BY <1>5, PutReadyDoes DEF Holds, Fresh, Woken
  <2>2. InMark' = InMark /\ StreamMark = stream.sample[1].frame /\ StreamMark < InMark
    BY <2>1 DEF InMark, StreamMark, HandsOrder
  <2>3. CASE ready' = ready /\ ~Holds'
    <3>1. StreamMark' = InMark
      BY <2>2, <2>3 DEF StreamMark
    <3>2. ReadyMark' >= ReadyMark
      BY <2>2, <2>3, <3>1 DEF ReadyMark
    <3>3. FreshMark' >= FreshMark
      BY <2>1, <3>2 DEF FreshMark
    <3>4. ready' # <<>> => ready'[1].frame < StreamMark'
      <4>1. ready # <<>> => ReadyMark = ready[1].frame /\ ReadyMark < StreamMark
        BY DEF ReadyMark, HandsOrder
      <4>2. ReadyMark \in Nat /\ StreamMark \in Nat /\ InMark \in Nat
        BY MarksTyped
      <4> QED
        BY ONLY <2>2, <2>3, <3>1, <4>1, <4>2
    <3>5. Fresh' => presenter'.sample[1].frame < ReadyMark'
      BY <2>1, <3>2 DEF HandsOrder, FreshMark
    <3> QED
      BY <2>3, <3>3, <3>4, <3>5 DEF HandsGrow, HandsOrder
  <2>4. CASE ready' = ready /\ Holds' /\ stream'.sample = stream.sample
    <3>1. HandsKept
      BY <2>1, <2>4 DEF HandsKept
    <3> QED
      BY <3>1, HandsKeptGrow
  <2>5. CASE ready = <<>> /\ ready' = stream.sample /\ ~Holds'
    <3>1. ready' # <<>>
      <4>1. Len(stream.sample) = 1
        BY <1>5, PutReadyDoes
      <4>2. Len(<<>>) # 1
        OBVIOUS
      <4> QED
        BY ONLY <2>5, <4>1, <4>2
    <3>2. StreamMark' = InMark /\ ReadyMark' = StreamMark /\ ReadyMark = StreamMark
      BY <2>2, <2>5, <3>1 DEF StreamMark, ReadyMark
    <3>3. FreshMark' = FreshMark
      BY <2>1, <3>2 DEF FreshMark
    <3> QED
      BY <2>1, <2>2, <2>5, <3>2, <3>3 DEF HandsGrow, HandsOrder
  <2> QED
    BY <1>5, <2>3, <2>4, <2>5, PutReadyDoes DEF Holds
<1>6. CASE TakeReady
  <2> USE MarksTyped, MarksTypedNext, MarksAscend
  <2>1. /\ stream'.inside = stream.inside /\ stream'.fed = stream.fed
        /\ stream'.sample = stream.sample /\ (Holds' <=> Holds) /\ ~Fresh
    BY <1>6, TakeReadyDoes DEF Holds, Fresh, Woken
  <2>2. InMark' = InMark /\ StreamMark' = StreamMark
    BY <2>1 DEF InMark, StreamMark
  <2>3. FreshMark = ReadyMark
    BY <2>1 DEF FreshMark
  <2>4. CASE ready' = ready /\ ~Fresh'
    <3>1. HandsKept
      BY <2>1, <2>4 DEF HandsKept
    <3> QED
      BY <3>1, HandsKeptGrow
  <2>5. CASE ready' = <<>> /\ ~Fresh'
    <3>1. ReadyMark' = StreamMark /\ FreshMark' = StreamMark
      BY <2>2, <2>5 DEF ReadyMark, FreshMark
    <3> QED
      BY <2>1, <2>2, <2>3, <2>5, <3>1 DEF HandsGrow, HandsOrder
  <2>6. CASE ready # <<>> /\ ready' = <<>> /\ Fresh' /\ presenter'.sample = ready
    <3>1. ReadyMark' = StreamMark /\ FreshMark' = ready[1].frame /\ ReadyMark = ready[1].frame
      BY <2>2, <2>6 DEF ReadyMark, FreshMark
    <3> QED
      BY <2>1, <2>2, <2>3, <2>6, <3>1 DEF HandsGrow, HandsOrder
  <2> QED
    BY <1>6, <2>1, <2>4, <2>5, <2>6, TakeReadyDoes DEF Fresh
<1>7. CASE AnnounceTaken
  <2>1. HandsKept
    BY <1>7, AnnounceTakenDoes DEF Woken, HandsKept, Holds, Fresh
  <2> QED
    BY <2>1, HandsKeptGrow
<1>8. CASE DispatchFails
  <2>1. HandsKept
    BY <1>8, DispatchFailsDoes DEF ProcessedFields, Woken, HandsKept, Holds, Fresh
  <2> QED
    BY <2>1, HandsKeptGrow
<1>9. CASE DrainAsyncFeedback
  <2>1. HandsKept
    BY <1>9, DrainDoes DEF HandsKept, Holds, Fresh
  <2> QED
    BY <2>1, HandsKeptGrow
<1>10. ASSUME NEW outcome \in Outcomes, InitializeGraphics(outcome) PROVE HandsGrow
  <2>1. HandsKept
    BY <1>10, InitializeGraphicsDoes DEF Apart, HandsKept, Holds, Fresh
  <2> QED
    BY <2>1, HandsKeptGrow
<1>11. ASSUME NEW ok \in BOOLEAN, EstablishPhase(ok) PROVE HandsGrow
  <2>1. HandsKept
    BY <1>11, EstablishPhaseDoes DEF Apart, HandsKept, Holds, Fresh
  <2> QED
    BY <2>1, HandsKeptGrow
<1>12. ASSUME NEW ok \in BOOLEAN, StartPlaying(ok) PROVE HandsGrow
  <2>1. HandsKept
    BY <1>12, StartPlayingDoes DEF HandsKept, Holds, Fresh
  <2> QED
    BY <2>1, HandsKeptGrow
<1>13. ASSUME NEW ok \in BOOLEAN, JoinAndStop(ok) PROVE HandsGrow
  <2>1. /\ UNCHANGED <<ready, presenter>> /\ stream'.inside = <<>> /\ stream'.fed = stream.fed
        /\ ~Holds /\ ~Holds'
    BY <1>13, JoinAndStopDoes DEF Holds
  <2>2. InMark' = stream.fed + 1 /\ stream.fed \in Nat /\ InMark \in Nat
    BY <2>1, MarksTyped DEF InMark, StreamType
  <2>3. InMark <= stream.fed + 1
    <3>1. CASE stream.inside = <<>>
      BY <2>2, <3>1 DEF InMark
    <3>2. CASE stream.inside # <<>>
      <4>1. stream.inside \in Seq(Numbers)
        BY DEF StreamType
      <4>2. 1 \in 1..Len(stream.inside)
        BY ONLY <3>2, <4>1, TailIs
      <4>3. stream.inside[1] <= stream.fed
        BY <4>2 DEF InsideOrder
      <4> QED
        BY <2>2, <3>2, <4>3 DEF InMark
    <3> QED
      BY <3>1, <3>2
  <2> QED
    BY <2>1, <2>2, <2>3, InsideGrows
<1>14. ASSUME NEW ok \in BOOLEAN, OnDecoderInput(ok) PROVE HandsGrow
  <2>1. /\ UNCHANGED <<ready, presenter>> /\ ~Holds /\ ~Holds' /\ stream'.fed = stream.fed + 1
        /\ \/ stream'.inside = Append(stream.inside, stream.fed + 1)
           \/ stream'.inside = stream.inside
    BY <1>14, OnDecoderInputDoes DEF Holds
  <2>2. stream.inside \in Seq(Numbers) /\ stream.fed \in Nat /\ stream.fed + 1 \in Numbers
    BY DEF StreamType, Numbers
  <2>3. InMark \in Nat
    BY MarksTyped
  <2>4. InMark' >= InMark
    <3>1. CASE stream.inside = <<>>
      <4>1. InMark' = stream.fed + 1 \/ InMark' = stream.fed + 2
        BY <2>1, <2>2, <3>1 DEF InMark
      <4> QED
        BY <2>2, <3>1, <4>1 DEF InMark
    <3>2. CASE stream.inside # <<>>
      <4>1. 1 \in 1..Len(stream.inside)
        BY ONLY <2>2, <3>2, TailIs
      <4>2. stream'.inside # <<>> /\ stream'.inside[1] = stream.inside[1]
        BY ONLY <2>1, <2>2, <3>2, <4>1, AppendIs
      <4> QED
        BY <2>3, <3>2, <4>2 DEF InMark
    <3> QED
      BY <3>1, <3>2
  <2> QED
    BY <2>1, <2>4, InsideGrows
<1>15. ASSUME NEW ok \in BOOLEAN, Admit(ok) PROVE HandsGrow
  <2>1. HandsKept
    BY <1>15, AdmitDoes DEF ProcessedFields, Stage, Woken, HandsKept, Holds, Fresh
  <2> QED
    BY <2>1, HandsKeptGrow
<1>16. ASSUME NEW ok \in BOOLEAN, CheckSample(ok) PROVE HandsGrow
  <2>1. HandsKept
    BY <1>16, CheckSampleDoes DEF ProcessedFields, Stage, Woken, HandsKept, Holds, Fresh
  <2> QED
    BY <2>1, HandsKeptGrow
<1>17. ASSUME NEW ok \in BOOLEAN, ImportAndPresent(ok) PROVE HandsGrow
  <2>1. HandsKept
    BY <1>17, ImportAndPresentDoes DEF ProcessedFields, Stage, Woken, HandsKept, Holds, Fresh
  <2> QED
    BY <2>1, HandsKeptGrow
<1>18. ASSUME NEW ok \in BOOLEAN, Roundtrip(ok) PROVE HandsGrow
  <2>1. HandsKept
    BY <1>18, RoundtripDoes DEF ProcessedFields, Woken, HandsKept, Holds, Fresh
  <2> QED
    BY <2>1, HandsKeptGrow
<1>19. ASSUME NEW how \in {"eos", "error"}, StreamEnds(how) PROVE HandsGrow
  <2>1. HandsKept
    BY <1>19, StreamEndsDoes DEF HandsKept, Holds, Fresh
  <2> QED
    BY <2>1, HandsKeptGrow
<1>20. ASSUME NEW feedback \in Feedbacks, OnFeedback(feedback) PROVE HandsGrow
  <2>1. HandsKept
    BY <1>20, OnFeedbackDoes DEF ProcessedFields, Woken, HandsKept, Holds, Fresh
  <2> QED
    BY <2>1, HandsKeptGrow
<1>21. ASSUME NEW feedback \in Feedbacks, OnAsyncFeedback(feedback) PROVE HandsGrow
  <2>1. HandsKept
    BY <1>21, OnAsyncFeedbackDoes DEF Dispatching, HandsKept, Holds, Fresh
  <2> QED
    BY <2>1, HandsKeptGrow
<1>22. CASE UNCHANGED clientVars
  <2>1. HandsKept
    BY <1>22 DEF clientVars, HandsKept, Holds, Fresh
  <2> QED
    BY <2>1, HandsKeptGrow
<1> QED
  BY <1>1, <1>2, <1>3, <1>4, <1>5, <1>6, <1>7, <1>8, <1>9, <1>10, <1>11,
     <1>12, <1>13, <1>14, <1>15, <1>16, <1>17, <1>18, <1>19, <1>20, <1>21, <1>22
    DEF ClientNext, ClientMain, Streaming, Presenting

\* The frames in flight are in order after the step, and the oldest sample that has not been
\* shown is no older than before.
FlightGrows == FlightOrder' /\ FlightMark' >= FlightMark

LEMMA FlightKept ==
    ASSUME ClientType, StreamPlace, PresenterPlace, FlightOrder, FlightRoom,
           ClientType', StreamPlace', PresenterPlace', flight' = flight, FreshMark' >= FreshMark
    PROVE  FlightGrows
<1>1. /\ FreshMark \in Nat /\ FreshMark' \in Nat /\ FlightMark \in Nat /\ flight \in Seq(Samples)
  BY MarksTyped, MarksTypedNext DEF ClientType, SamplesType
<1>2. \A i \in 1..Len(flight) : flight[i].frame \in Nat
  BY ONLY <1>1, SampleFrames
<1> HIDE DEF FreshMark
<1>3. FlightOrder'
  BY <1>1, <1>2 DEF FlightOrder
<1>4. FlightMark' >= FlightMark
  BY <1>1 DEF FlightMark
<1> QED
  BY <1>3, <1>4 DEF FlightGrows

\* The presenter commits its sample.
LEMMA FlightPushed ==
    ASSUME ClientType, StreamPlace, PresenterPlace, HandsOrder, FlightOrder,
           ClientType', StreamPlace', PresenterPlace', FreshMark' >= FreshMark,
           Fresh, ~Fresh', UNCHANGED <<stream, ready>>, Len(presenter.sample) = 1,
           flight' = Append(flight, presenter.sample[1])
    PROVE  FlightGrows
<1> DEFINE s == presenter.sample[1]
<1>1. /\ FreshMark \in Nat /\ FreshMark' \in Nat /\ FlightMark \in Nat /\ flight \in Seq(Samples)
  BY MarksTyped, MarksTypedNext DEF ClientType, SamplesType
<1>2. s \in Samples /\ s.frame = FreshMark
  <2>1. presenter.sample \in Seq(Samples)
    BY DEF ClientType, PresenterType
  <2>2. s \in Samples
    BY ONLY <2>1, Len(presenter.sample) = 1, FirstIn
  <2> QED
    BY <2>2 DEF FreshMark
<1>3. FreshMark < FreshMark'
  <2>1. InMark' = InMark
    BY DEF InMark
  <2>2. StreamMark' = StreamMark
    BY <2>1 DEF StreamMark, Holds
  <2>3. FreshMark' = ReadyMark
    BY <2>2 DEF FreshMark, ReadyMark
  <2> QED
    BY <1>2, <2>3 DEF HandsOrder
<1>4. flight' = Append(flight, s)
  OBVIOUS
<1> HIDE DEF s, FreshMark
<1>5. /\ Len(flight) \in Nat /\ Len(flight') = Len(flight) + 1
      /\ \A i \in 1..Len(flight) : flight'[i] = flight[i] /\ flight[i].frame \in Nat
      /\ flight'[Len(flight) + 1] = s
  <2>1. \A i \in 1..Len(flight) : flight[i].frame \in Nat
    BY ONLY <1>1, SampleFrames
  <2> QED
    BY ONLY <1>1, <1>2, <1>4, <2>1, AppendIs
<1>6. FlightOrder'
  <2>1. ASSUME NEW i \in 1..Len(flight')
        PROVE  flight'[i].frame < FreshMark'
    <3>1. CASE i = Len(flight) + 1
      BY ONLY <1>2, <1>3, <1>5, <3>1
    <3>2. CASE i \in 1..Len(flight)
      <4>1. flight[i].frame < FreshMark /\ flight[i].frame \in Nat /\ flight'[i] = flight[i]
        BY <1>5, <3>2 DEF FlightOrder
      <4> QED
        BY ONLY <1>1, <1>3, <4>1
    <3> QED
      BY <1>5, <3>1, <3>2
  <2>2. ASSUME NEW i \in 1..Len(flight'), NEW j \in 1..Len(flight'), i < j
        PROVE  flight'[i].frame < flight'[j].frame
    <3>1. i \in 1..Len(flight)
      BY ONLY <1>5, <2>2
    <3>2. flight[i].frame < FreshMark /\ flight'[i] = flight[i]
      BY <1>5, <3>1 DEF FlightOrder
    <3>3. CASE j = Len(flight) + 1
      BY ONLY <1>2, <1>5, <3>2, <3>3
    <3>4. CASE j \in 1..Len(flight)
      BY <1>5, <2>2, <3>1, <3>2, <3>4 DEF FlightOrder
    <3> QED
      BY <1>5, <3>3, <3>4
  <2> QED
    BY <2>1, <2>2 DEF FlightOrder
<1>7. FlightMark' >= FlightMark
  <2>1. flight' # <<>>
    BY ONLY <1>1, <1>2, <1>4, AppendIs
  <2>2. CASE flight = <<>>
    <3>1. flight'[1] = s
      BY ONLY <1>5, <2>2, EmptySeq
    <3> QED
      BY <1>1, <1>2, <2>1, <2>2, <3>1 DEF FlightMark
  <2>3. CASE flight # <<>>
    <3>1. 1 \in 1..Len(flight)
      BY ONLY <1>1, <2>3, TailIs
    <3>2. flight'[1] = flight[1]
      BY <1>5, <3>1
    <3> QED
      BY <1>1, <2>1, <2>3, <3>2 DEF FlightMark
  <2> QED
    BY <2>2, <2>3
<1> QED
  BY <1>6, <1>7 DEF FlightGrows

\* The compositor answers for the oldest.
LEMMA FlightPopped ==
    ASSUME ClientType, StreamPlace, PresenterPlace, FlightOrder,
           ClientType', StreamPlace', PresenterPlace', FreshMark' >= FreshMark,
           flight # <<>>, flight' = Tail(flight)
    PROVE  FlightGrows /\ Head(flight).frame < FlightMark' /\ Head(flight).frame = FlightMark
<1>1. /\ FreshMark \in Nat /\ FreshMark' \in Nat /\ FlightMark \in Nat /\ flight \in Seq(Samples)
  BY MarksTyped, MarksTypedNext DEF ClientType, SamplesType
<1> HIDE DEF FreshMark
<1>2. /\ Len(flight) \in Nat \ {0} /\ Len(flight') = Len(flight) - 1 /\ Head(flight) = flight[1]
      /\ \A i \in 1..Len(flight') : flight'[i] = flight[i + 1] /\ i + 1 \in 1..Len(flight)
  BY ONLY <1>1, flight # <<>>, flight' = Tail(flight), TailIs
<1>3. \A i \in 1..Len(flight) : flight[i].frame \in Nat
  BY ONLY <1>1, SampleFrames
<1>4. FlightOrder'
  <2>1. ASSUME NEW i \in 1..Len(flight')
        PROVE  flight'[i].frame < FreshMark'
    <3>1. flight'[i] = flight[i + 1] /\ i + 1 \in 1..Len(flight)
      BY <1>2
    <3>2. flight[i + 1].frame < FreshMark /\ flight[i + 1].frame \in Nat
      BY <1>3, <3>1 DEF FlightOrder
    <3> QED
      BY ONLY <1>1, <3>1, <3>2, FreshMark' >= FreshMark
  <2>2. ASSUME NEW i \in 1..Len(flight'), NEW j \in 1..Len(flight'), i < j
        PROVE  flight'[i].frame < flight'[j].frame
    <3>1. /\ flight'[i] = flight[i + 1] /\ i + 1 \in 1..Len(flight)
          /\ flight'[j] = flight[j + 1] /\ j + 1 \in 1..Len(flight)
      BY <1>2
    <3>2. i + 1 < j + 1
      BY <2>2
    <3> QED
      BY <3>1, <3>2 DEF FlightOrder
  <2> QED
    BY <2>1, <2>2 DEF FlightOrder
<1>5. flight[1].frame < FlightMark' /\ flight[1].frame = FlightMark
  <2>1. flight[1].frame = FlightMark
    BY DEF FlightMark
  <2>2. CASE flight' = <<>>
    <3>1. flight[1].frame < FreshMark /\ flight[1].frame \in Nat
      BY <1>2, <1>3 DEF FlightOrder
    <3> QED
      BY <1>1, <2>1, <2>2, <3>1 DEF FlightMark
  <2>3. CASE flight' # <<>>
    <3>1. flight'[1] = flight[2] /\ 2 \in 1..Len(flight) /\ 1 \in 1..Len(flight)
      <4>1. flight' \in Seq(Samples)
        BY <1>1, TailIs
      <4>2. 1 \in 1..Len(flight')
        BY ONLY <2>3, <4>1, TailIs
      <4> QED
        BY ONLY <1>2, <4>2
    <3>2. flight[1].frame < flight[2].frame
      BY <3>1 DEF FlightOrder
    <3> QED
      BY <2>1, <2>3, <3>1, <3>2 DEF FlightMark
  <2> QED
    BY <2>2, <2>3
<1>6. FlightMark' >= FlightMark
  <2>1. FlightMark' \in Nat
    BY MarksTypedNext
  <2> QED
    BY ONLY <1>1, <1>5, <2>1
<1> QED
  BY <1>2, <1>4, <1>5, <1>6 DEF FlightGrows

\* What has been shown is in order after the step.
LEMMA ShownKept ==
    ASSUME ClientType, StreamPlace, PresenterPlace, ShownOrder,
           ClientType', StreamPlace', PresenterPlace', shown' = shown, FlightMark' >= FlightMark
    PROVE  ShownOrder'
<1>1. FlightMark \in Nat /\ FlightMark' \in Nat /\ shown \in Seq(Samples)
  BY MarksTyped, MarksTypedNext DEF ClientType, SamplesType
<1>2. \A i \in 1..Len(shown) : shown[i].frame \in Nat
  BY ONLY <1>1, SampleFrames
<1> HIDE DEF FlightMark
<1>3. \A i \in 1..Len(shown) : shown[i].frame < FlightMark'
  BY <1>1, <1>2 DEF ShownOrder
<1> QED
  BY <1>3 DEF ShownOrder

LEMMA ShownPushed ==
    ASSUME ClientType, StreamPlace, PresenterPlace, ShownOrder,
           ClientType', StreamPlace', PresenterPlace', FlightMark' >= FlightMark,
           NEW s \in Samples, s.frame = FlightMark, s.frame < FlightMark',
           shown' = Append(shown, s)
    PROVE  ShownOrder'
<1>1. FlightMark \in Nat /\ FlightMark' \in Nat /\ shown \in Seq(Samples)
  BY MarksTyped, MarksTypedNext DEF ClientType, SamplesType
<1> HIDE DEF FlightMark
<1>2. \A i \in 1..Len(shown) : shown[i].frame \in Nat
  BY ONLY <1>1, SampleFrames
<1>3. /\ Len(shown) \in Nat /\ Len(shown') = Len(shown) + 1
      /\ \A i \in 1..Len(shown) : shown'[i] = shown[i]
      /\ shown'[Len(shown) + 1] = s
  BY ONLY <1>1, shown' = Append(shown, s), s \in Samples, AppendIs
<1>4. s.frame >= Len(shown) + 1
  <2>1. CASE Len(shown) = 0
    BY <2>1 DEF Samples, Numbers
  <2>2. CASE Len(shown) # 0
    <3>1. Len(shown) \in 1..Len(shown)
      BY <1>3, <2>2
    <3>2. Len(shown) <= shown[Len(shown)].frame /\ shown[Len(shown)].frame < FlightMark
      BY <3>1 DEF ShownOrder
    <3> QED
      BY <1>1, <1>2, <1>3, <3>1, <3>2
  <2> QED
    BY <2>1, <2>2
<1>5. ASSUME NEW i \in 1..Len(shown')
      PROVE  i <= shown'[i].frame /\ shown'[i].frame < FlightMark'
  <2>1. CASE i = Len(shown) + 1
    BY <1>3, <1>4, <2>1
  <2>2. CASE i \in 1..Len(shown)
    <3>1. i <= shown[i].frame /\ shown[i].frame < FlightMark /\ shown[i].frame \in Nat
      BY <1>2, <2>2 DEF ShownOrder
    <3> QED
      BY <1>1, <1>3, <2>2, <3>1
  <2> QED
    BY <1>3, <2>1, <2>2
<1>6. ASSUME NEW i \in 1..Len(shown'), NEW j \in 1..Len(shown'), i < j
      PROVE  /\ shown'[i].frame < shown'[j].frame
             /\ shown'[i].frame - i <= shown'[j].frame - j
  <2>1. i \in 1..Len(shown) /\ shown'[i] = shown[i] /\ shown[i].frame \in Nat
    BY <1>2, <1>3, <1>6
  <2>2. CASE j = Len(shown) + 1
    <3> DEFINE n == Len(shown)
    <3>1. /\ n \in 1..n /\ n \in Nat /\ i <= n /\ i \in Nat
          /\ shown[n].frame \in Nat /\ shown'[j] = s /\ j = n + 1
      BY <1>2, <1>3, <2>1, <2>2
    <3>2. shown[n].frame < s.frame /\ shown[i].frame < s.frame /\ s.frame \in Nat
      BY <1>1, <2>1, <3>1 DEF ShownOrder
    <3>3. shown[i].frame - i <= shown[n].frame - n
      <4>1. CASE i = n
        BY <2>1, <4>1
      <4>2. CASE i < n
        BY <2>1, <3>1, <4>2 DEF ShownOrder
      <4> QED
        BY <3>1, <4>1, <4>2
    <3> DEFINE a == shown[i].frame
    <3> DEFINE b == shown[n].frame
    <3> DEFINE c == s.frame
    <3>4. a \in Nat /\ b \in Nat /\ c \in Nat /\ n \in Nat /\ i \in Nat
          /\ b < c /\ a < c /\ a - i <= b - n
      BY ONLY <2>1, <3>1, <3>2, <3>3
    <3>5. shown'[i].frame = a /\ shown'[j].frame = c
      BY ONLY <2>1, <3>1
    <3> HIDE DEF n, a, b, c
    <3>6. a < c /\ a - i <= c - (n + 1)
      BY ONLY <3>4
    <3> QED
      BY ONLY <3>1, <3>5, <3>6
  <2>3. CASE j \in 1..Len(shown)
    <3>1. shown[i].frame < shown[j].frame /\ shown[i].frame - i <= shown[j].frame - j
      BY <1>6, <2>1, <2>3 DEF ShownOrder
    <3> QED
      BY <1>3, <2>1, <2>3, <3>1
  <2> QED
    BY <1>3, <2>2, <2>3
<1> QED
  BY <1>5, <1>6 DEF ShownOrder

LEMMA OrderNext ==
    ASSUME ClientType, StreamPlace, PresenterPlace, FlightRoom, HandsOrder, FlightOrder, ShownOrder,
           ClientType', StreamPlace', PresenterPlace', HandsGrow, [ClientNext]_clientVars
    PROVE  FlightOrder' /\ ShownOrder'
<1> FreshMark' >= FreshMark
  BY DEF HandsGrow
<1> USE DEF ClientType
<1>1. CASE ClientParse
  <2>1. flight' = flight /\ shown' = shown
    BY <1>1, ClientParseDoes DEF Apart
  <2> QED
    BY <2>1, FlightKept, ShownKept DEF FlightGrows
<1>2. CASE PopMessage
  <2>1. flight' = flight /\ shown' = shown
    BY <1>2, PopMessageDoes DEF Woken
  <2> QED
    BY <2>1, FlightKept, ShownKept DEF FlightGrows
<1>3. CASE ShutdownGraphics
  <2>1. flight' = flight /\ shown' = shown
    BY <1>3, ShutdownGraphicsDoes DEF Apart
  <2> QED
    BY <2>1, FlightKept, ShownKept DEF FlightGrows
<1>4. CASE OnNewSample
  <2>1. flight' = flight /\ shown' = shown
    BY <1>4, OnNewSampleDoes
  <2> QED
    BY <2>1, FlightKept, ShownKept DEF FlightGrows
<1>5. CASE PutReady
  <2>1. flight' = flight /\ shown' = shown
    BY <1>5, PutReadyDoes DEF Woken
  <2> QED
    BY <2>1, FlightKept, ShownKept DEF FlightGrows
<1>6. CASE TakeReady
  <2>1. flight' = flight /\ shown' = shown
    BY <1>6, TakeReadyDoes DEF Woken
  <2> QED
    BY <2>1, FlightKept, ShownKept DEF FlightGrows
<1>7. CASE AnnounceTaken
  <2>1. flight' = flight /\ shown' = shown
    BY <1>7, AnnounceTakenDoes DEF Woken
  <2> QED
    BY <2>1, FlightKept, ShownKept DEF FlightGrows
<1>8. CASE DispatchFails
  <2>1. flight' = flight /\ shown' = shown
    BY <1>8, DispatchFailsDoes DEF ProcessedFields, Woken
  <2> QED
    BY <2>1, FlightKept, ShownKept DEF FlightGrows
<1>9. CASE DrainAsyncFeedback
  <2>1. flight' = flight /\ shown' = shown
    BY <1>9, DrainDoes
  <2> QED
    BY <2>1, FlightKept, ShownKept DEF FlightGrows
<1>10. ASSUME NEW outcome \in Outcomes, InitializeGraphics(outcome) PROVE FlightOrder' /\ ShownOrder'
  <2>1. flight' = flight /\ shown' = shown
    BY <1>10, InitializeGraphicsDoes DEF Apart
  <2> QED
    BY <2>1, FlightKept, ShownKept DEF FlightGrows
<1>11. ASSUME NEW ok \in BOOLEAN, EstablishPhase(ok) PROVE FlightOrder' /\ ShownOrder'
  <2>1. flight' = flight /\ shown' = shown
    BY <1>11, EstablishPhaseDoes DEF Apart
  <2> QED
    BY <2>1, FlightKept, ShownKept DEF FlightGrows
<1>12. ASSUME NEW ok \in BOOLEAN, StartPlaying(ok) PROVE FlightOrder' /\ ShownOrder'
  <2>1. flight' = flight /\ shown' = shown
    BY <1>12, StartPlayingDoes
  <2> QED
    BY <2>1, FlightKept, ShownKept DEF FlightGrows
<1>13. ASSUME NEW ok \in BOOLEAN, JoinAndStop(ok) PROVE FlightOrder' /\ ShownOrder'
  <2>1. flight' = flight /\ shown' = shown
    BY <1>13, JoinAndStopDoes
  <2> QED
    BY <2>1, FlightKept, ShownKept DEF FlightGrows
<1>14. ASSUME NEW ok \in BOOLEAN, OnDecoderInput(ok) PROVE FlightOrder' /\ ShownOrder'
  <2>1. flight' = flight /\ shown' = shown
    BY <1>14, OnDecoderInputDoes
  <2> QED
    BY <2>1, FlightKept, ShownKept DEF FlightGrows
<1>15. ASSUME NEW ok \in BOOLEAN, Admit(ok) PROVE FlightOrder' /\ ShownOrder'
  <2>1. flight' = flight /\ shown' = shown
    BY <1>15, AdmitDoes DEF ProcessedFields, Stage, Woken
  <2> QED
    BY <2>1, FlightKept, ShownKept DEF FlightGrows
<1>16. ASSUME NEW ok \in BOOLEAN, CheckSample(ok) PROVE FlightOrder' /\ ShownOrder'
  <2>1. flight' = flight /\ shown' = shown
    BY <1>16, CheckSampleDoes DEF ProcessedFields, Stage, Woken
  <2> QED
    BY <2>1, FlightKept, ShownKept DEF FlightGrows
<1>17. ASSUME NEW ok \in BOOLEAN, ImportAndPresent(ok) PROVE FlightOrder' /\ ShownOrder'
  <2>1. shown' = shown
    BY <1>17, ImportAndPresentDoes
  <2>2. CASE flight' = flight
    BY <2>1, <2>2, FlightKept, ShownKept DEF FlightGrows
  <2>3. CASE flight' = Append(flight, presenter.sample[1])
    <3>1. CASE ProcessedFields(FALSE) /\ flight' = flight
      BY <2>2, <3>1
    <3>2. CASE Stage(IF Async(cl.opt) THEN "roundtrip" ELSE "feedback")
      <4>1. presenter.stage = "import" /\ ready' = ready
        BY <1>17, ImportAndPresentDoes
      <4>2. /\ stream' = stream /\ presenter'.pc = presenter.pc
            /\ presenter'.stage \in {"roundtrip", "feedback"}
        BY <3>2 DEF Stage
      <4>3. presenter.pc # "taken" /\ Len(presenter.sample) = 1
        BY <4>1 DEF PresenterPlace
      <4>4. Fresh /\ ~Fresh'
        BY <4>1, <4>2, <4>3 DEF Fresh
      <4>5. FlightGrows
        BY <2>3, <4>1, <4>2, <4>3, <4>4, FlightPushed
      <4> QED
        BY <2>1, <4>5, ShownKept DEF FlightGrows
    <3> QED
      BY <1>17, <3>1, <3>2, ImportAndPresentDoes
  <2> QED
    BY <1>17, <2>2, <2>3, ImportAndPresentDoes
<1>18. ASSUME NEW ok \in BOOLEAN, Roundtrip(ok) PROVE FlightOrder' /\ ShownOrder'
  <2>1. flight' = flight /\ shown' = shown
    BY <1>18, RoundtripDoes DEF ProcessedFields, Woken
  <2> QED
    BY <2>1, FlightKept, ShownKept DEF FlightGrows
<1>19. ASSUME NEW how \in {"eos", "error"}, StreamEnds(how) PROVE FlightOrder' /\ ShownOrder'
  <2>1. flight' = flight /\ shown' = shown
    BY <1>19, StreamEndsDoes
  <2> QED
    BY <2>1, FlightKept, ShownKept DEF FlightGrows
<1>20. ASSUME NEW feedback \in Feedbacks, OnFeedback(feedback) PROVE FlightOrder' /\ ShownOrder'
  <2>1. presenter.stage = "feedback" /\ flight' = <<>>
    BY <1>20, OnFeedbackDoes
  <2>2. Len(flight) = 1 /\ flight # <<>>
    BY <2>1, FeedbackOwed DEF ClientType
  <2>3. flight \in Seq(Samples)
    BY DEF ClientType, SamplesType
  <2>4. flight' = Tail(flight) /\ Head(flight) \in Samples
    <3>1. Tail(flight) \in Seq(Samples) /\ Len(Tail(flight)) = 0 /\ Head(flight) = flight[1]
      BY ONLY <2>2, <2>3, TailIs
    <3>2. \A s \in Seq(Samples) : Len(s) = 0 => s = <<>>
      OBVIOUS
    <3>3. Tail(flight) = <<>>
      BY ONLY <3>1, <3>2, Zenon
    <3>4. flight[1] \in Samples
      BY ONLY <2>2, <2>3, FirstIn
    <3> QED
      BY ONLY <2>1, <3>1, <3>3, <3>4
  <2>5. FlightGrows /\ Head(flight).frame < FlightMark' /\ Head(flight).frame = FlightMark
    BY <2>2, <2>4, FlightPopped
  <2>6. CASE shown' = shown
    BY <2>5, <2>6, ShownKept DEF FlightGrows
  <2>7. CASE shown' = Append(shown, Head(flight))
    BY <2>4, <2>5, <2>7, ShownPushed DEF FlightGrows
  <2> QED
    BY <1>20, <2>6, <2>7, OnFeedbackDoes
<1>21. ASSUME NEW feedback \in Feedbacks, OnAsyncFeedback(feedback) PROVE FlightOrder' /\ ShownOrder'
  <2>2. flight # <<>> /\ flight' = Tail(flight)
    BY <1>21, OnAsyncFeedbackDoes
  <2>3. flight \in Seq(Samples)
    BY DEF ClientType, SamplesType
  <2>4. Head(flight) \in Samples
    BY ONLY <2>2, <2>3
  <2>5. FlightGrows /\ Head(flight).frame < FlightMark' /\ Head(flight).frame = FlightMark
    BY <2>2, FlightPopped
  <2>6. CASE shown' = shown
    BY <2>5, <2>6, ShownKept DEF FlightGrows
  <2>7. CASE shown' = Append(shown, Head(flight))
    BY <2>4, <2>5, <2>7, ShownPushed DEF FlightGrows
  <2> QED
    BY <1>21, <2>6, <2>7, OnAsyncFeedbackDoes
<1>22. CASE UNCHANGED clientVars
  <2>1. flight' = flight /\ shown' = shown
    BY <1>22 DEF clientVars
  <2> QED
    BY <2>1, FlightKept, ShownKept DEF FlightGrows
<1> QED
  BY <1>1, <1>2, <1>3, <1>4, <1>5, <1>6, <1>7, <1>8, <1>9, <1>10, <1>11,
     <1>12, <1>13, <1>14, <1>15, <1>16, <1>17, <1>18, <1>19, <1>20, <1>21, <1>22
    DEF ClientNext, ClientMain, Streaming, Presenting

\* A sample keeps its own stamp wherever it is put.
LEMMA StampedParts ==
    /\ Stamped(<<>>)
    /\ \A n \in Nat : Stamped(<<[frame |-> n, stamp |-> n]>>)
    /\ \A q \in Seq(Samples) : Stamped(q) /\ q # <<>> =>
         Stamped(Tail(q)) /\ q[1].stamp = q[1].frame /\ Head(q) = q[1] /\ q[1] \in Samples
    /\ \A q \in Seq(Samples), s \in Samples :
         Stamped(q) /\ s.stamp = s.frame => Stamped(Append(q, s))
<1>1. Stamped(<<>>)
  BY DEF Stamped
<1>2. \A n \in Nat : Stamped(<<[frame |-> n, stamp |-> n]>>)
  BY DEF Stamped
<1>3. ASSUME NEW q \in Seq(Samples), Stamped(q), q # <<>>
      PROVE  Stamped(Tail(q)) /\ q[1].stamp = q[1].frame /\ Head(q) = q[1] /\ q[1] \in Samples
  <2>1. /\ Tail(q) \in Seq(Samples) /\ Len(q) \in Nat \ {0} /\ Head(q) = q[1]
        /\ \A i \in 1..Len(Tail(q)) : Tail(q)[i] = q[i + 1] /\ i + 1 \in 1..Len(q)
    BY ONLY <1>3, q \in Seq(Samples), TailIs
  <2>2. q[1].stamp = q[1].frame /\ q[1] \in Samples
    BY <1>3, <2>1 DEF Stamped
  <2>3. Stamped(Tail(q))
    BY <1>3, <2>1 DEF Stamped
  <2> QED
    BY <2>1, <2>2, <2>3
<1>4. ASSUME NEW q \in Seq(Samples), NEW s \in Samples, Stamped(q), s.stamp = s.frame
      PROVE  Stamped(Append(q, s))
  <2>1. /\ Len(q) \in Nat /\ Len(Append(q, s)) = Len(q) + 1
        /\ \A i \in 1..Len(q) : Append(q, s)[i] = q[i]
        /\ Append(q, s)[Len(q) + 1] = s
    BY AppendIs
  <2>2. ASSUME NEW i \in 1..Len(Append(q, s))
        PROVE  Append(q, s)[i].stamp = Append(q, s)[i].frame
    <3>1. CASE i = Len(q) + 1
      BY <1>4, <2>1, <3>1
    <3>2. CASE i \in 1..Len(q)
      BY <1>4, <2>1, <3>2 DEF Stamped
    <3> QED
      BY <2>1, <3>1, <3>2
  <2> QED
    BY <2>2 DEF Stamped
<1> QED
  BY <1>1, <1>2, <1>3, <1>4

\* Every step keeps each sample with its stamp.
LEMMA ClientStampsNext ==
    ASSUME ClientType, StreamPlace, PresenterPlace, FlightRoom, ClientStamps, [ClientNext]_clientVars
    PROVE  ClientStamps'
<1>a. Stamped(<<>>)
  BY StampedParts
<1> USE <1>a DEF ClientType, StreamPlace, PresenterPlace, Holds, ClientStamps
<1>1. CASE ClientParse
  BY <1>1, ClientParseDoes DEF Apart
<1>2. CASE PopMessage
  BY <1>2, PopMessageDoes DEF Woken
<1>3. CASE ShutdownGraphics
  BY <1>3, ShutdownGraphicsDoes DEF Apart
<1>4. CASE OnNewSample
  <2>1. stream'.sample = <<[frame |-> Head(stream.inside), stamp |-> Head(stream.inside)]>>
        /\ Head(stream.inside) \in Nat
    <3>1. stream.inside \in Seq(Numbers) /\ stream.inside # <<>>
      BY <1>4, OnNewSampleDoes DEF ClientType, StreamType
    <3>2. Head(stream.inside) \in Numbers
      BY ONLY <3>1
    <3> QED
      BY <1>4, OnNewSampleDoes, <3>2 DEF Numbers
  <2>2. Stamped(stream'.sample)
    BY <2>1, StampedParts
  <2> QED
    BY <1>4, OnNewSampleDoes, <2>2
<1>5. CASE PutReady
  BY <1>5, PutReadyDoes DEF Woken
<1>6. CASE TakeReady
  BY <1>6, TakeReadyDoes DEF Woken
<1>7. CASE AnnounceTaken
  BY <1>7, AnnounceTakenDoes DEF Woken
<1>8. CASE DispatchFails
  BY <1>8, DispatchFailsDoes DEF ProcessedFields, Woken
<1>9. CASE DrainAsyncFeedback
  BY <1>9, DrainDoes
<1>10. ASSUME NEW outcome \in Outcomes, InitializeGraphics(outcome) PROVE ClientStamps'
  BY <1>10, InitializeGraphicsDoes DEF Apart
<1>11. ASSUME NEW ok \in BOOLEAN, EstablishPhase(ok) PROVE ClientStamps'
  BY <1>11, EstablishPhaseDoes DEF Apart
<1>12. ASSUME NEW ok \in BOOLEAN, StartPlaying(ok) PROVE ClientStamps'
  BY <1>12, StartPlayingDoes
<1>13. ASSUME NEW ok \in BOOLEAN, JoinAndStop(ok) PROVE ClientStamps'
  BY <1>13, JoinAndStopDoes
<1>14. ASSUME NEW ok \in BOOLEAN, OnDecoderInput(ok) PROVE ClientStamps'
  BY <1>14, OnDecoderInputDoes
<1>15. ASSUME NEW ok \in BOOLEAN, Admit(ok) PROVE ClientStamps'
  BY <1>15, AdmitDoes DEF ProcessedFields, Stage, Woken
<1>16. ASSUME NEW ok \in BOOLEAN, CheckSample(ok) PROVE ClientStamps'
  BY <1>16, CheckSampleDoes DEF ProcessedFields, Stage, Woken
<1>17. ASSUME NEW ok \in BOOLEAN, ImportAndPresent(ok) PROVE ClientStamps'
  <2>1. (ProcessedFields(FALSE) /\ flight' = flight)
        \/ (/\ Stage(IF Async(cl.opt) THEN "roundtrip" ELSE "feedback")
            /\ flight' = Append(flight, presenter.sample[1]))
    BY <1>17, ImportAndPresentDoes
  <2>2. presenter.sample \in Seq(Samples) /\ flight \in Seq(Samples)
        /\ Len(presenter.sample) = 1
    BY <1>17, ImportAndPresentDoes DEF ClientType, PresenterType, SamplesType
  <2>3. presenter.sample # <<>>
    <3>1. Len(<<>>) # 1
      BY EmptySeq
    <3> QED
      BY ONLY <2>2, <3>1, Zenon
  <2>4. Stamped(Append(flight, presenter.sample[1]))
    BY <2>2, <2>3, StampedParts
  <2> QED
    BY <1>17, <2>1, <2>4, ImportAndPresentDoes DEF ProcessedFields, Stage, Woken
<1>18. ASSUME NEW ok \in BOOLEAN, Roundtrip(ok) PROVE ClientStamps'
  BY <1>18, RoundtripDoes DEF ProcessedFields, Woken
<1>19. ASSUME NEW how \in {"eos", "error"}, StreamEnds(how) PROVE ClientStamps'
  BY <1>19, StreamEndsDoes
<1>20. ASSUME NEW feedback \in Feedbacks, OnFeedback(feedback) PROVE ClientStamps'
  <2>1. presenter.stage = "feedback" /\ flight' = <<>>
    BY <1>20, OnFeedbackDoes
  <2>2. flight # <<>> /\ flight \in Seq(Samples) /\ shown \in Seq(Samples)
    BY <2>1, FeedbackOwed DEF ClientType, SamplesType
  <2>3. Stamped(Append(shown, Head(flight)))
    BY <2>2, StampedParts
  <2> QED
    BY <1>20, <2>1, <2>3, OnFeedbackDoes DEF ProcessedFields, Woken
<1>21. ASSUME NEW feedback \in Feedbacks, OnAsyncFeedback(feedback) PROVE ClientStamps'
  <2>2. flight # <<>> /\ flight' = Tail(flight)
    BY <1>21, OnAsyncFeedbackDoes
  <2>3. flight \in Seq(Samples) /\ shown \in Seq(Samples)
    BY DEF ClientType, SamplesType
  <2>4. Stamped(Append(shown, Head(flight))) /\ Stamped(Tail(flight))
    BY <2>2, <2>3, StampedParts
  <2> QED
    BY <1>21, <2>2, <2>4, OnAsyncFeedbackDoes
<1>22. CASE UNCHANGED clientVars
  BY <1>22 DEF clientVars
<1> QED
  BY <1>1, <1>2, <1>3, <1>4, <1>5, <1>6, <1>7, <1>8, <1>9, <1>10, <1>11,
     <1>12, <1>13, <1>14, <1>15, <1>16, <1>17, <1>18, <1>19, <1>20, <1>21, <1>22
    DEF ClientNext, ClientMain, Streaming, Presenting

\* The presenter has committed its sample before the step, or commits it in the step.
Commits ==
    /\ presenter'.sample = presenter.sample
    /\ \/ presenter'.stage = presenter.stage /\ presenter'.pc = presenter.pc
       \/ presenter.stage = "import" /\ stream' = stream /\ ready' = ready
CommitsNext == presenter'.stage \in {"roundtrip", "feedback"} => Commits

LEMMA StageKept ==
    ASSUME ClientType, ClientStart, StreamPlace, PresenterPlace, [ClientNext]_clientVars
    PROVE  CommitsNext
<1> USE DEF ClientType, StreamPlace, PresenterPlace, ClientStart, CommitsNext, Commits
<1>1. CASE ClientParse
  BY <1>1, ClientParseDoes DEF Apart
<1>2. CASE PopMessage
  BY <1>2, PopMessageDoes DEF Woken
<1>3. CASE ShutdownGraphics
  BY <1>3, ShutdownGraphicsDoes DEF Apart
<1>4. CASE OnNewSample
  BY <1>4, OnNewSampleDoes
<1>5. CASE PutReady
  BY <1>5, PutReadyDoes DEF Woken
<1>6. CASE TakeReady
  BY <1>6, TakeReadyDoes DEF Woken
<1>7. CASE AnnounceTaken
  BY <1>7, AnnounceTakenDoes DEF Woken
<1>8. CASE DispatchFails
  BY <1>8, DispatchFailsDoes DEF ProcessedFields, Woken
<1>9. CASE DrainAsyncFeedback
  BY <1>9, DrainDoes
<1>10. ASSUME NEW outcome \in Outcomes, InitializeGraphics(outcome) PROVE CommitsNext
  BY <1>10, InitializeGraphicsDoes DEF Apart
<1>11. ASSUME NEW ok \in BOOLEAN, EstablishPhase(ok) PROVE CommitsNext
  BY <1>11, EstablishPhaseDoes DEF Apart
<1>12. ASSUME NEW ok \in BOOLEAN, StartPlaying(ok) PROVE CommitsNext
  BY <1>12, StartPlayingDoes
<1>13. ASSUME NEW ok \in BOOLEAN, JoinAndStop(ok) PROVE CommitsNext
  BY <1>13, JoinAndStopDoes
<1>14. ASSUME NEW ok \in BOOLEAN, OnDecoderInput(ok) PROVE CommitsNext
  BY <1>14, OnDecoderInputDoes
<1>15. ASSUME NEW ok \in BOOLEAN, Admit(ok) PROVE CommitsNext
  BY <1>15, AdmitDoes DEF ProcessedFields, Stage, Woken
<1>16. ASSUME NEW ok \in BOOLEAN, CheckSample(ok) PROVE CommitsNext
  BY <1>16, CheckSampleDoes DEF ProcessedFields, Stage, Woken
<1>17. ASSUME NEW ok \in BOOLEAN, ImportAndPresent(ok) PROVE CommitsNext
  BY <1>17, ImportAndPresentDoes DEF ProcessedFields, Stage, Woken
<1>18. ASSUME NEW ok \in BOOLEAN, Roundtrip(ok) PROVE CommitsNext
  BY <1>18, RoundtripDoes DEF ProcessedFields, Woken
<1>19. ASSUME NEW how \in {"eos", "error"}, StreamEnds(how) PROVE CommitsNext
  BY <1>19, StreamEndsDoes
<1>20. ASSUME NEW feedback \in Feedbacks, OnFeedback(feedback) PROVE CommitsNext
  BY <1>20, OnFeedbackDoes DEF ProcessedFields, Woken
<1>21. ASSUME NEW feedback \in Feedbacks, OnAsyncFeedback(feedback) PROVE CommitsNext
  BY <1>21, OnAsyncFeedbackDoes DEF Dispatching
<1>22. CASE UNCHANGED clientVars
  BY <1>22 DEF clientVars
<1> QED
  BY <1>1, <1>2, <1>3, <1>4, <1>5, <1>6, <1>7, <1>8, <1>9, <1>10, <1>11,
     <1>12, <1>13, <1>14, <1>15, <1>16, <1>17, <1>18, <1>19, <1>20, <1>21, <1>22
    DEF ClientNext, ClientMain, Streaming, Presenting

LEMMA CommittedNext ==
    ASSUME ClientType, ClientStart, ClientMiddle, StreamPlace, PresenterPlace,
           ClientType', StreamPlace', PresenterPlace', InsideOrder, InsideOrder', HandsOrder,
           Committed, [ClientNext]_clientVars
    PROVE  Committed'
<1>1. FreshMark' >= FreshMark
  BY HandsNext DEF HandsGrow
<1>2. /\ FreshMark \in Nat /\ ReadyMark \in Nat
      /\ FreshMark' \in Nat /\ ReadyMark' \in Nat
  BY MarksTyped, MarksTypedNext
<1>3. SUFFICES ASSUME presenter'.stage \in {"roundtrip", "feedback"}
               PROVE  presenter'.sample[1].frame < ReadyMark'
  BY DEF Committed
<1>4. Commits
  BY <1>3, StageKept DEF CommitsNext
<1>5. presenter.stage # "none" /\ presenter.pc # "taken" /\ presenter'.sample = presenter.sample
      /\ Len(presenter.sample) = 1
  BY <1>3, <1>4 DEF Commits, PresenterPlace
<1>6. CASE presenter'.stage = presenter.stage /\ presenter'.pc = presenter.pc
  <2>1. ~Fresh /\ ~Fresh'
    BY <1>3, <1>5, <1>6 DEF Fresh
  <2>2. FreshMark = ReadyMark /\ FreshMark' = ReadyMark'
    BY <2>1 DEF FreshMark
  <2>3. presenter.sample[1].frame < ReadyMark
    BY <1>3, <1>6 DEF Committed
  <2>4. presenter.sample[1].frame \in Nat
    BY <1>5, SampleFrames DEF ClientType, PresenterType
  <2> QED
    BY ONLY <1>1, <1>2, <1>5, <2>2, <2>3, <2>4
<1>7. CASE presenter.stage = "import" /\ stream' = stream /\ ready' = ready
  <2>1. Fresh
    BY <1>7 DEF Fresh
  <2>2. presenter.sample[1].frame < ReadyMark
    BY <2>1 DEF HandsOrder
  <2>3. ReadyMark' = ReadyMark
    BY <1>7 DEF ReadyMark, StreamMark, InMark, Holds
  <2> QED
    BY ONLY <1>5, <2>2, <2>3
<1> QED
  BY <1>4, <1>6, <1>7 DEF Commits

\* The three hands, and that no sample is in two of them.
Hand == IF Holds THEN Held(stream.sample) ELSE {}

LEMMA HeldParts ==
    /\ Held(<<>>) = {}
    /\ \A q \in Seq(Samples) : Len(q) = 1 => Held(q) = {q[1].frame}
    /\ \A q \in Seq(Samples) : Len(q) <= 1 => q = <<>> \/ Held(q) = {q[1].frame}
    /\ \A q \in Seq(Samples) : Held(q) = {s.frame : s \in ToSet(q)}
    /\ \A n \in Nat : Held(<<[frame |-> n, stamp |-> n]>>) = {n}
<1>1. Held(<<>>) = {}
  BY DEF Held
<1>2. \A q \in Seq(Samples) : Len(q) = 1 => Held(q) = {q[1].frame}
  BY DEF Held
<1>3. \A q \in Seq(Samples) : Len(q) <= 1 => q = <<>> \/ Held(q) = {q[1].frame}
  BY <1>2, OneLong
<1>4. \A q \in Seq(Samples) : Held(q) = {s.frame : s \in ToSet(q)}
  BY DEF Held, ToSet
<1>5. \A n \in Nat : Held(<<[frame |-> n, stamp |-> n]>>) = {n}
  BY DEF Held
<1> QED
  BY <1>1, <1>2, <1>3, <1>4, <1>5

LEMMA HandsApart ==
    ASSUME ClientType, StreamPlace, PresenterPlace, HandsOrder, Committed
    PROVE  /\ Held(ready) \cap Hand = {}
           /\ presenter.stage # "none" =>
                /\ Held(presenter.sample) = {presenter.sample[1].frame}
                /\ presenter.sample[1].frame \notin Held(ready) \cup Hand
           /\ Holds => /\ Hand = {stream.sample[1].frame}
                       /\ stream.sample[1].frame \notin Held(ready) \cup Held(presenter.sample)
<1>1. /\ InMark \in Nat /\ StreamMark \in Nat /\ ReadyMark \in Nat /\ FreshMark \in Nat
      /\ ReadyMark <= StreamMark
  BY MarksTyped, MarksAscend
<1>2. ready \in Seq(Samples) /\ Len(ready) <= 1
  BY DEF ClientType, SamplesType
<1>3. ready = <<>> \/ (/\ Held(ready) = {ready[1].frame} /\ ready[1].frame = ReadyMark
                      /\ ReadyMark < StreamMark)
  BY <1>2, HeldParts DEF ReadyMark, HandsOrder
<1>4. ready = <<>> => Held(ready) = {}
  BY HeldParts
<1>5. Holds => Hand = {stream.sample[1].frame} /\ stream.sample[1].frame = StreamMark
  <2>1. stream.sample \in Seq(Samples) /\ (Holds => Len(stream.sample) = 1)
    BY DEF ClientType, StreamType, StreamPlace
  <2> QED
    BY ONLY <2>1, HeldParts DEF Hand, StreamMark
<1>6. ~Holds => Hand = {}
  BY DEF Hand
<1>7. presenter.sample \in Seq(Samples) /\ (Len(presenter.sample) = 1 \/ presenter.sample = <<>>)
      /\ (presenter.stage # "none" => Len(presenter.sample) = 1)
      /\ (presenter.sample # <<>> => presenter.pc = "taken" \/ presenter.stage # "none")
  BY DEF ClientType, PresenterType, PresenterPlace
<1>8. presenter.sample # <<>> =>
        /\ Held(presenter.sample) = {presenter.sample[1].frame}
        /\ presenter.sample[1].frame < ReadyMark /\ presenter.sample[1].frame \in Nat
  <2>1. presenter.sample # <<>> => presenter.sample[1].frame < ReadyMark
    <3>1. presenter.stage \in PresentStages
      BY DEF ClientType, PresenterType
    <3>2. presenter.pc = "taken" \/ presenter.stage # "none" =>
            Fresh \/ presenter.stage \in {"roundtrip", "feedback"}
      BY <3>1 DEF Fresh, PresentStages
    <3> QED
      BY <1>7, <3>2 DEF HandsOrder, Committed
  <2>2. Len(presenter.sample) = 1 =>
          /\ Held(presenter.sample) = {presenter.sample[1].frame}
          /\ presenter.sample[1].frame \in Nat
    BY ONLY <1>7, HeldParts, SampleFrames
  <2> QED
    BY <1>7, <2>1, <2>2
<1>9. presenter.stage # "none" => presenter.sample # <<>>
  <2>1. Len(<<>>) # 1
    BY EmptySeq
  <2> QED
    BY ONLY <1>7, <2>1, Zenon
<1>10. presenter.sample = <<>> => Held(presenter.sample) = {}
  BY HeldParts
<1> HIDE DEF Hand, Held, Holds, ReadyMark, StreamMark, InMark, FreshMark
<1>11. Held(ready) \cap Hand = {}
  BY ONLY <1>1, <1>3, <1>4, <1>5, <1>6
<1>12. presenter.stage # "none" =>
         /\ Held(presenter.sample) = {presenter.sample[1].frame}
         /\ presenter.sample[1].frame \notin Held(ready) \cup Hand
  BY ONLY <1>1, <1>3, <1>4, <1>5, <1>6, <1>8, <1>9
<1>13. Holds => /\ Hand = {stream.sample[1].frame}
                /\ stream.sample[1].frame \notin Held(ready) \cup Held(presenter.sample)
  BY ONLY <1>1, <1>3, <1>4, <1>5, <1>8, <1>10
<1> QED
  BY <1>11, <1>12, <1>13

\* The sample is unreferenced and was nobody else's.
LEMMA ProcessedAlive ==
    ASSUME ClientType, StreamPlace, PresenterPlace, HandsOrder, Committed, ClientAlive,
           presenter.stage # "none", ready' = ready,
           NEW valid \in BOOLEAN, ProcessedFields(valid)
    PROVE  ClientAlive'
<1>1. /\ Held(presenter.sample) = {presenter.sample[1].frame}
      /\ presenter.sample[1].frame \notin Held(ready) \cup Hand
  BY HandsApart
<1>2. alive' = alive \ {presenter.sample[1].frame} /\ presenter'.sample = <<>>
  BY DEF ProcessedFields
<1>3. Hand' = Hand
  <2>1. CASE Threaded(cl.opt)
    BY <2>1 DEF ProcessedFields, Hand, Holds, Woken
  <2>2. CASE ~Threaded(cl.opt)
    BY <2>2 DEF ProcessedFields, Hand, Holds, StreamPlace
  <2> QED
    BY <2>1, <2>2
<1>4. Held(<<>>) = {}
  BY HeldParts
<1>5. alive = Held(ready) \cup Held(presenter.sample) \cup Hand
  BY DEF ClientAlive, Hand
<1>6. alive' = Held(ready') \cup Held(presenter'.sample) \cup Hand'
  BY ONLY <1>1, <1>2, <1>3, <1>4, <1>5, ready' = ready
<1> QED
  BY <1>6 DEF ClientAlive, Hand

\* Every step keeps account of the samples that exist.
LEMMA ClientAliveNext ==
    ASSUME ClientType, ClientStart, ClientMiddle, StreamPlace, PresenterPlace,
           HandsOrder, Committed, ClientAlive, [ClientNext]_clientVars
    PROVE  ClientAlive'
<1> USE DEF ClientType, ClientStart, StreamPlace, PresenterPlace, Holds, ClientAlive
<1>1. CASE ClientParse
  BY <1>1, ClientParseDoes DEF Apart
<1>2. CASE PopMessage
  BY <1>2, PopMessageDoes DEF Woken
<1>3. CASE ShutdownGraphics
  BY <1>3, ShutdownGraphicsDoes DEF Apart
<1>4. CASE OnNewSample
  <2>1. /\ alive' = alive \cup {Head(stream.inside)} /\ ready' = ready
        /\ stream'.sample = <<[frame |-> Head(stream.inside), stamp |-> Head(stream.inside)]>>
        /\ Threaded(cl.opt) => stream'.pc = "check" /\ presenter' = presenter
        /\ ~Threaded(cl.opt) => /\ stream'.pc = "present" /\ presenter'.sample = stream'.sample
                               /\ presenter.pc = "none" /\ presenter.stage = "none"
        /\ stream.pc = "idle"
    BY <1>4, OnNewSampleDoes
  <2>2. Head(stream.inside) \in Nat
    <3>1. stream.inside \in Seq(Numbers) /\ stream.inside # <<>>
      BY <1>4, OnNewSampleDoes DEF StreamType
    <3>2. Head(stream.inside) \in Numbers
      BY ONLY <3>1
    <3> QED
      BY <3>2 DEF Numbers
  <2>3. Held(stream'.sample) = {Head(stream.inside)}
    BY <2>1, <2>2, HeldParts
  <2>4. CASE Threaded(cl.opt)
    BY <2>1, <2>3, <2>4
  <2>5. CASE ~Threaded(cl.opt)
    <3>1. presenter.sample = <<>>
      BY <2>1, <2>5
    <3>2. Held(presenter.sample) = {}
      BY <3>1, HeldParts
    <3> QED
      BY <2>1, <2>3, <2>5, <3>2
  <2> QED
    BY <2>4, <2>5
<1>5. CASE PutReady
  <2>1. /\ Hand = {stream.sample[1].frame} /\ Hand = Held(stream.sample) /\ Holds
        /\ stream.sample[1].frame \notin Held(ready) \cup Held(presenter.sample)
    <3>1. Holds
      BY <1>5, PutReadyDoes
    <3> QED
      BY <3>1, HandsApart DEF Hand
  <2>2. alive = Held(ready) \cup Held(presenter.sample) \cup Hand
    BY DEF Hand
  <2>3. Held(<<>>) = {} /\ presenter'.sample = presenter.sample
    BY <1>5, PutReadyDoes, HeldParts
  <2>4. \/ /\ alive' = alive \ {stream.sample[1].frame} /\ ready' = ready /\ ~Holds'
        \/ /\ alive' = alive /\ ready' = ready /\ Hand' = Hand
        \/ /\ alive' = alive /\ ready = <<>> /\ ready' = stream.sample /\ ~Holds'
    BY <1>5, <2>1, PutReadyDoes DEF Hand
  <2>5. ~Holds' => Hand' = {}
    BY DEF Hand
  <2>6. alive' = Held(ready') \cup Held(presenter'.sample) \cup Hand'
    BY ONLY <2>1, <2>2, <2>3, <2>4, <2>5
  <2> QED
    BY <2>6 DEF Hand
<1>6. CASE TakeReady
  <2>1. Hand' = Hand
    BY <1>6, TakeReadyDoes DEF Hand, Woken
  <2>2. alive = Held(ready) \cup Held(presenter.sample) \cup Hand
    BY DEF Hand
  <2>3. presenter.stage = "none" /\ presenter.sample = <<>> /\ presenter.pc = "check"
    BY <1>6, TakeReadyDoes
  <2>4. Held(<<>>) = {} /\ Held(ready) \cap Hand = {}
        /\ {s.frame : s \in ToSet(ready)} = Held(ready)
    BY HeldParts, HandsApart DEF SamplesType
  <2>5. \/ /\ alive' = alive \ {s.frame : s \in ToSet(ready)} /\ ready' = <<>>
           /\ presenter'.sample = presenter.sample
        \/ /\ alive' = alive /\ ready' = ready /\ presenter'.sample = presenter.sample
        \/ /\ alive' = alive /\ ready' = <<>> /\ presenter'.sample = ready
    BY <1>6, TakeReadyDoes
  <2>6. alive' = Held(ready') \cup Held(presenter'.sample) \cup Hand'
    BY ONLY <2>1, <2>2, <2>3, <2>4, <2>5
  <2> QED
    BY <2>6 DEF Hand
<1>7. CASE AnnounceTaken
  BY <1>7, AnnounceTakenDoes DEF Woken
<1>8. CASE DispatchFails
  <2>1. CASE presenter.pc = "drain" /\ UNCHANGED <<stream, alive>>
             /\ presenter'.sample = presenter.sample
    BY <1>8, <2>1, DispatchFailsDoes
  <2>2. CASE presenter.stage = "admit" /\ ProcessedFields(FALSE)
    BY <1>8, <2>2, ProcessedAlive, DispatchFailsDoes
  <2> QED
    BY <1>8, <2>1, <2>2, DispatchFailsDoes
<1>9. CASE DrainAsyncFeedback
  BY <1>9, DrainDoes
<1>10. ASSUME NEW outcome \in Outcomes, InitializeGraphics(outcome) PROVE ClientAlive'
  BY <1>10, InitializeGraphicsDoes DEF Apart
<1>11. ASSUME NEW ok \in BOOLEAN, EstablishPhase(ok) PROVE ClientAlive'
  BY <1>11, EstablishPhaseDoes DEF Apart
<1>12. ASSUME NEW ok \in BOOLEAN, StartPlaying(ok) PROVE ClientAlive'
  BY <1>12, StartPlayingDoes
<1>13. ASSUME NEW ok \in BOOLEAN, JoinAndStop(ok) PROVE ClientAlive'
  BY <1>13, JoinAndStopDoes
<1>14. ASSUME NEW ok \in BOOLEAN, OnDecoderInput(ok) PROVE ClientAlive'
  BY <1>14, OnDecoderInputDoes
<1>15. ASSUME NEW ok \in BOOLEAN, Admit(ok) PROVE ClientAlive'
  <2>1. CASE ProcessedFields(TRUE)
    BY <1>15, <2>1, ProcessedAlive, AdmitDoes
  <2>2. CASE Stage("check")
    BY <1>15, <2>2, AdmitDoes DEF Stage
  <2> QED
    BY <1>15, <2>1, <2>2, AdmitDoes
<1>16. ASSUME NEW ok \in BOOLEAN, CheckSample(ok) PROVE ClientAlive'
  <2>1. CASE ProcessedFields(FALSE)
    BY <1>16, <2>1, ProcessedAlive, CheckSampleDoes
  <2>2. CASE Stage("import")
    BY <1>16, <2>2, CheckSampleDoes DEF Stage
  <2> QED
    BY <1>16, <2>1, <2>2, CheckSampleDoes
<1>17. ASSUME NEW ok \in BOOLEAN, ImportAndPresent(ok) PROVE ClientAlive'
  <2>1. CASE ProcessedFields(FALSE)
    BY <1>17, <2>1, ProcessedAlive, ImportAndPresentDoes
  <2>2. CASE Stage(IF Async(cl.opt) THEN "roundtrip" ELSE "feedback")
    BY <1>17, <2>2, ImportAndPresentDoes DEF Stage
  <2> QED
    BY <1>17, <2>1, <2>2, ImportAndPresentDoes
<1>18. ASSUME NEW ok \in BOOLEAN, Roundtrip(ok) PROVE ClientAlive'
  BY <1>18, ProcessedAlive, RoundtripDoes
<1>19. ASSUME NEW how \in {"eos", "error"}, StreamEnds(how) PROVE ClientAlive'
  BY <1>19, StreamEndsDoes
<1>20. ASSUME NEW feedback \in Feedbacks, OnFeedback(feedback) PROVE ClientAlive'
  <2>1. presenter.stage = "feedback" /\ ready' = ready
        /\ (ProcessedFields(TRUE) \/ ProcessedFields(FALSE))
    BY <1>20, OnFeedbackDoes
  <2> QED
    BY <2>1, ProcessedAlive
<1>21. ASSUME NEW feedback \in Feedbacks, OnAsyncFeedback(feedback) PROVE ClientAlive'
  BY <1>21, OnAsyncFeedbackDoes DEF Dispatching
<1>22. CASE UNCHANGED clientVars
  BY <1>22 DEF clientVars
<1> QED
  BY <1>1, <1>2, <1>3, <1>4, <1>5, <1>6, <1>7, <1>8, <1>9, <1>10, <1>11,
     <1>12, <1>13, <1>14, <1>15, <1>16, <1>17, <1>18, <1>19, <1>20, <1>21, <1>22
    DEF ClientNext, ClientMain, Streaming, Presenting

\* A command line that is accepted asks for a frame.
LEMMA FramesWanted ==
    ASSUME NEW o \in ClientOptions, ClientOptionsValid(o)
    PROVE  o.frames \in Nat /\ o.frames > 0
<1>1. o.frames \in Nat /\ o.lead \in Nat /\ o.limit \in Nat
  BY ClientAssumption
<1>2. o.frames > 0
  BY ONLY ClientOptionsValid(o), Zenon DEF ClientOptionsValid
<1> QED
  BY ONLY <1>1, <1>2

\* Every step keeps the count of what has been handed over, and that no frame is missing.
LEMMA QueuedEnoughNext ==
    ASSUME ClientType, ClientStart, ClientMiddle, StreamPlace, PresenterPlace, QueuedEnough, [ClientNext]_clientVars
    PROVE  QueuedEnough'
<1>a. cl.opt.frames \in Nat /\ stream.queued \in Nat
  BY ClientAssumption DEF ClientType, ClientMainType, StreamType
<1>b. ClientOptionsValid(cl.opt) => cl.opt.frames > 0
  BY FramesWanted DEF ClientType, ClientMainType
<1> USE <1>a, <1>b DEF ClientType, ClientStart, ClientMiddle, StreamPlace, PresenterPlace, Holds, QueuedEnough
<1>1. CASE ClientParse
  BY <1>1, ClientParseDoes DEF Apart
<1>2. CASE PopMessage
  BY <1>2, PopMessageDoes DEF Woken
<1>3. CASE ShutdownGraphics
  BY <1>3, ShutdownGraphicsDoes DEF Apart
<1>4. CASE OnNewSample
  BY <1>4, OnNewSampleDoes
<1>5. CASE PutReady
  <2>1. stream.pc = "check" /\ cl' = cl
    BY <1>5, PutReadyDoes
  <2>2. CASE Threaded(cl.opt) /\ cl.pc \notin {"options", "exit"}
    <3>1. stream.queued < cl.opt.frames
      BY <2>1, <2>2
    <3> QED
      BY <1>5, <2>1, <2>2, <3>1, PutReadyDoes
  <2>3. CASE ~(Threaded(cl.opt) /\ cl.pc \notin {"options", "exit"})
    BY <2>1, <2>3
  <2> QED
    BY <2>2, <2>3
<1>6. CASE TakeReady
  BY <1>6, TakeReadyDoes DEF Woken
<1>7. CASE AnnounceTaken
  BY <1>7, AnnounceTakenDoes DEF Woken
<1>8. CASE DispatchFails
  BY <1>8, DispatchFailsDoes DEF ProcessedFields, Woken
<1>9. CASE DrainAsyncFeedback
  BY <1>9, DrainDoes
<1>10. ASSUME NEW outcome \in Outcomes, InitializeGraphics(outcome) PROVE QueuedEnough'
  BY <1>10, InitializeGraphicsDoes DEF Apart
<1>11. ASSUME NEW ok \in BOOLEAN, EstablishPhase(ok) PROVE QueuedEnough'
  BY <1>11, EstablishPhaseDoes DEF Apart
<1>12. ASSUME NEW ok \in BOOLEAN, StartPlaying(ok) PROVE QueuedEnough'
  BY <1>12, StartPlayingDoes
<1>13. ASSUME NEW ok \in BOOLEAN, JoinAndStop(ok) PROVE QueuedEnough'
  BY <1>13, JoinAndStopDoes
<1>14. ASSUME NEW ok \in BOOLEAN, OnDecoderInput(ok) PROVE QueuedEnough'
  BY <1>14, OnDecoderInputDoes
<1>15. ASSUME NEW ok \in BOOLEAN, Admit(ok) PROVE QueuedEnough'
  BY <1>15, AdmitDoes DEF ProcessedFields, Stage, Woken
<1>16. ASSUME NEW ok \in BOOLEAN, CheckSample(ok) PROVE QueuedEnough'
  BY <1>16, CheckSampleDoes DEF ProcessedFields, Stage, Woken
<1>17. ASSUME NEW ok \in BOOLEAN, ImportAndPresent(ok) PROVE QueuedEnough'
  BY <1>17, ImportAndPresentDoes DEF ProcessedFields, Stage, Woken
<1>18. ASSUME NEW ok \in BOOLEAN, Roundtrip(ok) PROVE QueuedEnough'
  BY <1>18, RoundtripDoes DEF ProcessedFields, Woken
<1>19. ASSUME NEW how \in {"eos", "error"}, StreamEnds(how) PROVE QueuedEnough'
  BY <1>19, StreamEndsDoes
<1>20. ASSUME NEW feedback \in Feedbacks, OnFeedback(feedback) PROVE QueuedEnough'
  BY <1>20, OnFeedbackDoes DEF ProcessedFields, Woken
<1>21. ASSUME NEW feedback \in Feedbacks, OnAsyncFeedback(feedback) PROVE QueuedEnough'
  BY <1>21, OnAsyncFeedbackDoes DEF Dispatching
<1>22. CASE UNCHANGED clientVars
  BY <1>22 DEF clientVars
<1> QED
  BY <1>1, <1>2, <1>3, <1>4, <1>5, <1>6, <1>7, <1>8, <1>9, <1>10, <1>11,
     <1>12, <1>13, <1>14, <1>15, <1>16, <1>17, <1>18, <1>19, <1>20, <1>21, <1>22
    DEF ClientNext, ClientMain, Streaming, Presenting

\* The step moves no frame, as far as the count of them goes.
CountKept ==
    /\ stream'.fed = stream.fed /\ stream'.inside = stream.inside
    /\ stream'.queued = stream.queued /\ (Holds' <=> Holds)
    /\ ~Threaded(cl.opt) =>
         /\ stream'.pc = "present" <=> stream.pc = "present"
         /\ shown' = shown
    /\ cl'.opt = cl.opt
    /\ cl.pc \in {"shutdown", "exit"} => cl'.pc \in {"shutdown", "exit"}
    /\ stopping.failed => stopping'.failed
    /\ stopping.stop => stopping'.stop

LEMMA CountedKept ==
    ASSUME Counted, CountKept
    PROVE  Counted'
BY DEF Counted, CountKept

LEMMA CountedFailed ==
    ASSUME stopping'.failed \/ cl'.pc \in {"shutdown", "exit"}
    PROVE  Counted'
BY DEF Counted

LEMMA CountedNext ==
    ASSUME ClientType, ClientStart, ClientMiddle, StreamPlace, PresenterPlace, FlightRoom,
           Counted, [ClientNext]_clientVars
    PROVE  Counted'
<1>a. /\ stream.fed \in Nat /\ stream.queued \in Nat /\ Len(stream.inside) \in Nat
      /\ Len(shown) \in Nat
  BY DEF ClientType, StreamType, SamplesType
<1> USE DEF ClientType, ClientStart, ClientMiddle, StreamPlace, PresenterPlace, Holds, Async, Threaded
<1>1. CASE ClientParse
  <2>1. cl'.pc = "exit" \/ CountKept
    BY <1>1, ClientParseDoes DEF Apart, CountKept
  <2> QED
    BY ONLY <2>1, Counted, CountedKept, CountedFailed
<1>2. CASE PopMessage
  <2>1. CountKept
    BY <1>2, PopMessageDoes DEF Woken, CountKept
  <2> QED
    BY ONLY <2>1, Counted, CountedKept
<1>3. CASE ShutdownGraphics
  <2>1. CountKept
    BY <1>3, ShutdownGraphicsDoes DEF Apart, CountKept
  <2> QED
    BY ONLY <2>1, Counted, CountedKept
<1>4. CASE OnNewSample
  <2>1. /\ stream'.fed = stream.fed /\ cl' = cl /\ stopping' = stopping /\ shown' = shown
        /\ stream.inside # <<>> /\ stream'.inside = Tail(stream.inside)
        /\ ~Holds /\ stream.pc = "idle"
        /\ Threaded(cl.opt) => Holds' /\ stream'.queued = stream.queued
        /\ ~Threaded(cl.opt) => /\ ~Holds' /\ stream'.queued = stream.queued + 1
                               /\ stream'.pc = "present"
    BY <1>4, OnNewSampleDoes
  <2>2. /\ Len(stream'.inside) = Len(stream.inside) - 1
        /\ \A i \in 1..Len(stream'.inside) :
             stream'.inside[i] = stream.inside[i + 1] /\ i + 1 \in 1..Len(stream.inside)
    <3>1. stream.inside \in Seq(Numbers)
      BY DEF StreamType
    <3> QED
      BY ONLY <2>1, <3>1, TailIs
  <2>3. ASSUME cl.pc \notin {"shutdown", "exit"}, ~stopping.failed,
               NEW i \in 1..Len(stream'.inside)
        PROVE  stream'.inside[i] = stream'.fed - Len(stream'.inside) + i
    <3>1. stream'.inside[i] = stream.fed - Len(stream.inside) + (i + 1)
      BY ONLY <2>2, <2>3, Counted DEF Counted
    <3>2. /\ stream'.fed = stream.fed /\ Len(stream'.inside) = Len(stream.inside) - 1
          /\ stream.fed \in Nat /\ Len(stream.inside) \in Nat /\ i \in Nat
      BY ONLY <1>a, <2>1, <2>2, <2>3
    <3>3. \A f, l, k \in Nat : f - (l - 1) + k = f - l + (k + 1)
      OBVIOUS
    <3>4. /\ stream'.fed - Len(stream'.inside) + i = stream.fed - (Len(stream.inside) - 1) + i
          /\ stream.fed - (Len(stream.inside) - 1) + i
               = stream.fed - Len(stream.inside) + (i + 1)
      BY ONLY <3>2, <3>3, Zenon
    <3> QED
      BY ONLY <3>1, <3>4, Zenon
  <2>4. stream'.fed - Len(stream'.inside) = stream.fed - Len(stream.inside) + 1
    BY ONLY <1>a, <2>1, <2>2
  <2> QED
    BY ONLY <1>a, <2>1, <2>3, <2>4, Counted DEF Counted
<1>5. CASE PutReady
  <2>1. /\ Holds /\ cl' = cl /\ stopping' = stopping /\ stream'.inside = stream.inside
        /\ stream'.fed = stream.fed /\ Threaded(cl.opt)
        /\ (stopping.stop \/ (stream'.pc = "sleep" /\ stream'.queued = stream.queued)
             \/ (~Holds' /\ stream'.queued = stream.queued + 1))
    BY <1>5, PutReadyDoes
  <2>2. CASE stopping.stop
    BY ONLY <2>1, <2>2, Counted DEF Counted
  <2>3. CASE stream'.pc = "sleep" /\ stream'.queued = stream.queued
    BY ONLY <2>1, <2>3, Counted DEF Counted, Holds
  <2>4. CASE ~Holds' /\ stream'.queued = stream.queued + 1
    BY ONLY <2>1, <2>4, <1>a, Counted DEF Counted
  <2> QED
    BY <2>1, <2>2, <2>3, <2>4
<1>6. CASE TakeReady
  <2>1. CountKept
    BY <1>6, TakeReadyDoes DEF Woken, CountKept
  <2> QED
    BY ONLY <2>1, Counted, CountedKept
<1>7. CASE AnnounceTaken
  <2>1. CountKept
    BY <1>7, AnnounceTakenDoes DEF Woken, CountKept
  <2> QED
    BY ONLY <2>1, Counted, CountedKept
<1>8. CASE DispatchFails
  <2>1. stopping'.failed
    BY <1>8, DispatchFailsDoes DEF ProcessedFields
  <2> QED
    BY ONLY <2>1, CountedFailed
<1>9. CASE DrainAsyncFeedback
  <2>1. CountKept
    BY <1>9, DrainDoes DEF CountKept
  <2> QED
    BY ONLY <2>1, Counted, CountedKept
<1>10. ASSUME NEW outcome \in Outcomes, InitializeGraphics(outcome) PROVE Counted'
  <2>1. CountKept
    BY <1>10, InitializeGraphicsDoes DEF Apart, CountKept
  <2> QED
    BY ONLY <2>1, Counted, CountedKept
<1>11. ASSUME NEW ok \in BOOLEAN, EstablishPhase(ok) PROVE Counted'
  <2>1. CountKept
    BY <1>11, EstablishPhaseDoes DEF Apart, CountKept
  <2> QED
    BY ONLY <2>1, Counted, CountedKept
<1>12. ASSUME NEW ok \in BOOLEAN, StartPlaying(ok) PROVE Counted'
  <2>1. cl'.pc = "shutdown" \/ CountKept
    BY <1>12, StartPlayingDoes DEF CountKept
  <2> QED
    BY ONLY <2>1, Counted, CountedKept, CountedFailed
<1>13. ASSUME NEW ok \in BOOLEAN, JoinAndStop(ok) PROVE Counted'
  BY <1>13, CountedFailed, JoinAndStopDoes
<1>14. ASSUME NEW ok \in BOOLEAN, OnDecoderInput(ok) PROVE Counted'
  <2>1. CASE stopping'.failed
    BY <2>1, CountedFailed
  <2>2. CASE stopping'.failed = stopping.failed /\ stream'.inside = Append(stream.inside, stream.fed + 1)
    <3>1. /\ stream'.fed = stream.fed + 1 /\ cl' = cl /\ stopping'.stop = stopping.stop
          /\ stream'.queued = stream.queued /\ shown' = shown /\ ~Holds /\ ~Holds'
          /\ stream'.pc = "idle" /\ stream.pc = "idle"
      BY <1>14, OnDecoderInputDoes
    <3>2. /\ Len(stream'.inside) = Len(stream.inside) + 1
          /\ \A i \in 1..Len(stream.inside) : stream'.inside[i] = stream.inside[i]
          /\ stream'.inside[Len(stream.inside) + 1] = stream.fed + 1
      <4>1. stream.inside \in Seq(Numbers) /\ stream.fed + 1 \in Numbers
        BY <1>a, HandTypes DEF StreamType
      <4> QED
        BY ONLY <2>2, <4>1, AppendIs
    <3>3. ASSUME cl.pc \notin {"shutdown", "exit"}, ~stopping.failed,
                 NEW i \in 1..Len(stream'.inside)
          PROVE  stream'.inside[i] = stream'.fed - Len(stream'.inside) + i
      <4>1. CASE i \in 1..Len(stream.inside)
        <5>1. stream'.inside[i] = stream.fed - Len(stream.inside) + i
          BY ONLY <3>2, <3>3, <4>1, Counted DEF Counted
        <5> QED
          BY ONLY <1>a, <3>1, <3>2, <4>1, <5>1
      <4>2. CASE i = Len(stream.inside) + 1
        BY ONLY <1>a, <3>1, <3>2, <4>2
      <4> QED
        BY ONLY <1>a, <3>2, <3>3, <4>1, <4>2
    <3>4. stream'.fed - Len(stream'.inside) = stream.fed - Len(stream.inside)
      <4>1. \A f, l \in Nat : (f + 1) - (l + 1) = f - l
        OBVIOUS
      <4> QED
        BY ONLY <1>a, <3>1, <3>2, <4>1, Zenon
    <3> QED
      BY ONLY <2>2, <3>1, <3>3, <3>4, Counted DEF Counted
  <2> QED
    BY <1>14, <2>1, <2>2, OnDecoderInputDoes
<1>15. ASSUME NEW ok \in BOOLEAN, Admit(ok) PROVE Counted'
  <2>1. CountKept
    BY <1>15, AdmitDoes DEF ProcessedFields, Stage, Woken, CountKept
  <2> QED
    BY ONLY <2>1, Counted, CountedKept
<1>16. ASSUME NEW ok \in BOOLEAN, CheckSample(ok) PROVE Counted'
  <2>1. stopping'.failed \/ CountKept
    BY <1>16, CheckSampleDoes DEF ProcessedFields, Stage, CountKept
  <2> QED
    BY ONLY <2>1, Counted, CountedKept, CountedFailed
<1>17. ASSUME NEW ok \in BOOLEAN, ImportAndPresent(ok) PROVE Counted'
  <2>1. stopping'.failed \/ CountKept
    BY <1>17, ImportAndPresentDoes DEF ProcessedFields, Stage, CountKept
  <2> QED
    BY ONLY <2>1, Counted, CountedKept, CountedFailed
<1>18. ASSUME NEW ok \in BOOLEAN, Roundtrip(ok) PROVE Counted'
  <2>1. Async(cl.opt)
    BY <1>18, RoundtripDoes
  <2>2. PICK valid \in BOOLEAN : ProcessedFields(valid)
    BY <1>18, RoundtripDoes
  <2>3. stopping'.failed \/ CountKept
    BY <1>18, <2>1, <2>2, RoundtripDoes DEF ProcessedFields, Woken, CountKept
  <2> QED
    BY ONLY <2>3, Counted, CountedKept, CountedFailed
<1>19. ASSUME NEW how \in {"eos", "error"}, StreamEnds(how) PROVE Counted'
  <2>1. CountKept
    BY <1>19, StreamEndsDoes DEF CountKept
  <2> QED
    BY ONLY <2>1, Counted, CountedKept
<1>20. ASSUME NEW feedback \in Feedbacks, OnFeedback(feedback) PROVE Counted'
  <2>1. /\ presenter.stage = "feedback" /\ cl' = cl
        /\ (stopping'.failed \/ (ProcessedFields(TRUE) /\ shown' = Append(shown, Head(flight))))
    BY <1>20, OnFeedbackDoes DEF ProcessedFields
  <2>2. CASE stopping'.failed
    BY <2>2, CountedFailed
  <2>3. CASE ProcessedFields(TRUE) /\ shown' = Append(shown, Head(flight)) /\ Threaded(cl.opt)
    <3>1. CountKept
      BY <2>1, <2>3 DEF ProcessedFields, CountKept, Woken
    <3> QED
      BY ONLY <3>1, Counted, CountedKept
  <2>4. CASE ProcessedFields(TRUE) /\ shown' = Append(shown, Head(flight)) /\ ~Threaded(cl.opt)
    <3>1. /\ stream.pc = "present" /\ stream'.pc # "present" /\ ~Holds /\ ~Holds'
          /\ stream'.fed = stream.fed /\ stream'.inside = stream.inside
          /\ stream'.queued = stream.queued /\ (stopping'.failed <=> stopping.failed)
          /\ (stopping'.stop <=> stopping.stop)
      BY <2>1, <2>4 DEF ProcessedFields
    <3>2. Len(shown') = Len(shown) + 1
      <4>1. flight # <<>> /\ flight \in Seq(Samples) /\ shown \in Seq(Samples)
        BY <2>1, FeedbackOwed DEF SamplesType
      <4>2. Head(flight) \in Samples
        BY ONLY <4>1
      <4> QED
        BY ONLY <2>4, <4>1, <4>2, AppendIs
    <3> QED
      BY ONLY <1>a, <2>1, <2>4, <3>1, <3>2, Counted DEF Counted
  <2> QED
    BY <2>1, <2>2, <2>3, <2>4
<1>21. ASSUME NEW feedback \in Feedbacks, OnAsyncFeedback(feedback) PROVE Counted'
  <2>1. CountKept
    BY <1>21, OnAsyncFeedbackDoes DEF Dispatching, CountKept
  <2> QED
    BY ONLY <2>1, Counted, CountedKept
<1>22. CASE UNCHANGED clientVars
  <2>1. CountKept
    BY <1>22 DEF clientVars, CountKept
  <2> QED
    BY ONLY <2>1, Counted, CountedKept
<1> QED
  BY <1>1, <1>2, <1>3, <1>4, <1>5, <1>6, <1>7, <1>8, <1>9, <1>10, <1>11,
     <1>12, <1>13, <1>14, <1>15, <1>16, <1>17, <1>18, <1>19, <1>20, <1>21, <1>22
    DEF ClientNext, ClientMain, Streaming, Presenting

\* At the end of a run in which nothing has failed, no sample is on its way.
LEMMA NothingOnItsWay ==
    ASSUME ClientType, StreamPlace, PresenterPlace, Stopped, FlightRoom, LeftBehind, Counted,
           QueuedEnough, cl.pc = "join", cl.eos, ~stopping.failed,
           presenter.pc \in {"none", "gone"}, stream.pc \in {"idle", "ended"},
           Len(shown) = cl.opt.frames
    PROVE  FlightMark \in Nat /\ FlightMark <= Len(shown) + 1
<1>a. /\ stream.fed \in Nat /\ stream.queued \in Nat /\ Len(stream.inside) \in Nat
      /\ Len(shown) \in Nat /\ cl.opt.frames \in Nat
  BY ClientAssumption DEF ClientType, ClientMainType, StreamType, SamplesType
<1>1. presenter.stage = "none" /\ presenter.pc # "taken" /\ ~Holds /\ ~stopping.stop
  BY DEF PresenterPlace, Stopped, Holds
<1>2. flight = <<>> /\ ready = <<>>
  <2>1. CASE Threaded(cl.opt)
    BY <2>1 DEF PresenterPlace, LeftBehind
  <2>2. CASE ~Threaded(cl.opt)
    <3>1. ~Async(cl.opt)
      BY <2>2 DEF Async, Threaded
    <3>2. Len(flight) = 0 /\ flight \in Seq(Samples)
      BY <1>1, <3>1 DEF FlightRoom, ClientType, SamplesType
    <3>3. flight = <<>>
      BY ONLY <3>2
    <3> QED
      BY <2>2, <3>3 DEF PresenterPlace
  <2> QED
    BY <2>1, <2>2
<1>3. FlightMark = InMark
  BY <1>1, <1>2 DEF FlightMark, FreshMark, Fresh, ReadyMark, StreamMark
<1>4. InMark = stream.fed - Len(stream.inside) + 1
  <2>1. CASE stream.inside = <<>>
    <3>1. Len(stream.inside) = 0
      BY <2>1
    <3> QED
      BY ONLY <1>a, <2>1, <3>1 DEF InMark
  <2>2. CASE stream.inside # <<>>
    <3>1. 1 \in 1..Len(stream.inside)
      BY ONLY <2>2, ClientType DEF ClientType, StreamType
    <3>2. stream.inside[1] = stream.fed - Len(stream.inside) + 1
      BY ONLY <3>1, Counted, cl.pc = "join", ~stopping.failed DEF Counted
    <3> QED
      BY ONLY <2>2, <3>2 DEF InMark
  <2> QED
    BY <2>1, <2>2
<1>5. stream.fed - Len(stream.inside) = stream.queued
  BY ONLY <1>a, <1>1, Counted, cl.pc = "join", ~stopping.failed DEF Counted
<1>6. stream.queued <= Len(shown)
  <2>1. CASE Threaded(cl.opt)
    BY ONLY <2>1, QueuedEnough, cl.pc = "join", Len(shown) = cl.opt.frames DEF QueuedEnough
  <2>2. CASE ~Threaded(cl.opt)
    <3>1. stream.queued = Len(shown) + 0
      BY ONLY <2>2, Counted, cl.pc = "join", ~stopping.failed, stream.pc \in {"idle", "ended"}
      DEF Counted
    <3> QED
      BY ONLY <1>a, <3>1
  <2> QED
    BY <2>1, <2>2
<1> QED
  BY ONLY <1>a, <1>3, <1>4, <1>5, <1>6

\* Then every frame asked for has been presented, in its place and with its stamp.
LEMMA AllShown ==
    ASSUME SamplesType, ShownOrder, Stamped(shown), FlightMark \in Nat,
           FlightMark <= Len(shown) + 1
    PROVE  shown = [i \in 1..Len(shown) |-> [frame |-> i, stamp |-> i]]
<1> DEFINE n == Len(shown)
<1>1. shown \in Seq(Samples) /\ n \in Nat
  BY DEF SamplesType
<1> HIDE DEF FlightMark
<1>2. ASSUME NEW i \in 1..n
      PROVE  shown[i].frame = i
  <2>1. /\ i \in Nat /\ n \in 1..n /\ i <= n /\ shown[i].frame \in Nat /\ shown[n].frame \in Nat
    BY <1>1, SampleFrames
  <2>2. shown[n].frame < FlightMark /\ n <= shown[n].frame /\ i <= shown[i].frame
    BY <2>1 DEF ShownOrder
  <2>3. i < n => shown[i].frame - i <= shown[n].frame - n
    BY <2>1 DEF ShownOrder
  <2> DEFINE a == shown[i].frame
  <2> DEFINE b == shown[n].frame
  <2>4. b < FlightMark /\ n <= b /\ i <= a /\ (i < n => a - i <= b - n)
        /\ a \in Nat /\ b \in Nat /\ (i = n => a = b)
    BY <2>1, <2>2, <2>3
  <2> HIDE DEF a, b, n
  <2>5. FlightMark <= n + 1
    BY DEF n
  <2>6. a = i
    BY ONLY <1>1, <2>1, <2>4, <2>5, FlightMark \in Nat
  <2> QED
    BY ONLY <2>6 DEF a
<1>3. ASSUME NEW i \in 1..n
      PROVE  shown[i] = [frame |-> i, stamp |-> i]
  <2>1. shown[i] \in Samples /\ shown[i].frame = i
    BY <1>1, <1>2, SampleFrames
  <2>2. shown[i].stamp = i
    BY <2>1 DEF Stamped
  <2> QED
    BY ONLY <2>1, <2>2 DEF Samples
<1>4. shown = [i \in 1..n |-> shown[i]]
  BY ONLY <1>1
<1> QED
  BY ONLY <1>3, <1>4 DEF n


\* What has been presented stays.
ShownStays ==
    /\ shown' = shown /\ cl'.opt = cl.opt /\ cl'.code = cl.code
    /\ cl.pc \in {"shutdown", "exit"} => cl'.pc \in {"shutdown", "exit"}

LEMMA PassedNext ==
    ASSUME ClientType, ClientStart, ClientMiddle, StreamPlace, PresenterPlace, Stopped,
           FlightRoom, LeftBehind, ShownOrder, ClientStamps, Counted, QueuedEnough, Passed, [ClientNext]_clientVars
    PROVE  Passed'
<1> USE DEF ClientType, ClientStart, ClientMiddle
<1>1. CASE ClientParse
  <2>1. cl'.code # 0 \/ ShownStays
    BY <1>1, ClientParseDoes DEF Apart, ShownStays
  <2> QED
    BY ONLY <2>1, Passed DEF Passed, ShownStays
<1>2. CASE PopMessage
  <2>1. cl'.code # 0 \/ ShownStays
    BY <1>2, PopMessageDoes DEF Woken, ShownStays
  <2> QED
    BY ONLY <2>1, Passed DEF Passed, ShownStays
<1>3. CASE ShutdownGraphics
  <2>1. cl'.code # 0 \/ ShownStays
    BY <1>3, ShutdownGraphicsDoes DEF Apart, ShownStays
  <2> QED
    BY ONLY <2>1, Passed DEF Passed, ShownStays
<1>4. CASE OnNewSample
  <2>1. cl'.code # 0 \/ ShownStays
    BY <1>4, OnNewSampleDoes DEF ShownStays
  <2> QED
    BY ONLY <2>1, Passed DEF Passed, ShownStays
<1>5. CASE PutReady
  <2>1. cl'.code # 0 \/ ShownStays
    BY <1>5, PutReadyDoes DEF Woken, ShownStays
  <2> QED
    BY ONLY <2>1, Passed DEF Passed, ShownStays
<1>6. CASE TakeReady
  <2>1. cl'.code # 0 \/ ShownStays
    BY <1>6, TakeReadyDoes DEF Woken, ShownStays
  <2> QED
    BY ONLY <2>1, Passed DEF Passed, ShownStays
<1>7. CASE AnnounceTaken
  <2>1. cl'.code # 0 \/ ShownStays
    BY <1>7, AnnounceTakenDoes DEF Woken, ShownStays
  <2> QED
    BY ONLY <2>1, Passed DEF Passed, ShownStays
<1>8. CASE DispatchFails
  <2>1. cl'.code # 0 \/ ShownStays
    BY <1>8, DispatchFailsDoes DEF ProcessedFields, Woken, ShownStays
  <2> QED
    BY ONLY <2>1, Passed DEF Passed, ShownStays
<1>9. CASE DrainAsyncFeedback
  <2>1. cl'.code # 0 \/ ShownStays
    BY <1>9, DrainDoes DEF ShownStays
  <2> QED
    BY ONLY <2>1, Passed DEF Passed, ShownStays
<1>10. ASSUME NEW outcome \in Outcomes, InitializeGraphics(outcome) PROVE Passed'
  <2>1. cl'.code # 0 \/ ShownStays
    BY <1>10, InitializeGraphicsDoes DEF Apart, ShownStays
  <2> QED
    BY ONLY <2>1, Passed DEF Passed, ShownStays
<1>11. ASSUME NEW ok \in BOOLEAN, EstablishPhase(ok) PROVE Passed'
  <2>1. cl'.code # 0 \/ ShownStays
    BY <1>11, EstablishPhaseDoes DEF Apart, ShownStays
  <2> QED
    BY ONLY <2>1, Passed DEF Passed, ShownStays
<1>12. ASSUME NEW ok \in BOOLEAN, StartPlaying(ok) PROVE Passed'
  <2>1. cl'.code # 0 \/ ShownStays
    BY <1>12, StartPlayingDoes DEF ShownStays
  <2> QED
    BY ONLY <2>1, Passed DEF Passed, ShownStays
<1>13. ASSUME NEW ok \in BOOLEAN, JoinAndStop(ok) PROVE Passed'
  <2>1. CASE cl'.code = 1
    BY <2>1 DEF Passed
  <2>2. CASE cl'.code = 0 /\ cl.eos /\ ~stopping.failed /\ Len(shown) = cl.opt.frames
    <3>1. FlightMark \in Nat /\ FlightMark <= Len(shown) + 1
      BY <1>13, <2>2, NothingOnItsWay, JoinAndStopDoes
    <3>2. shown = [i \in 1..Len(shown) |-> [frame |-> i, stamp |-> i]]
      BY <3>1, AllShown DEF ClientStamps
    <3>3. cl'.pc = "shutdown" /\ cl'.opt = cl.opt /\ shown' = shown
      BY <1>13, JoinAndStopDoes
    <3> QED
      BY ONLY <2>2, <3>2, <3>3 DEF Passed
  <2> QED
    BY <1>13, <2>1, <2>2, JoinAndStopDoes
<1>14. ASSUME NEW ok \in BOOLEAN, OnDecoderInput(ok) PROVE Passed'
  <2>1. cl'.code # 0 \/ ShownStays
    BY <1>14, OnDecoderInputDoes DEF ShownStays
  <2> QED
    BY ONLY <2>1, Passed DEF Passed, ShownStays
<1>15. ASSUME NEW ok \in BOOLEAN, Admit(ok) PROVE Passed'
  <2>1. cl'.code # 0 \/ ShownStays
    BY <1>15, AdmitDoes DEF ProcessedFields, Stage, Woken, ShownStays
  <2> QED
    BY ONLY <2>1, Passed DEF Passed, ShownStays
<1>16. ASSUME NEW ok \in BOOLEAN, CheckSample(ok) PROVE Passed'
  <2>1. cl'.code # 0 \/ ShownStays
    BY <1>16, CheckSampleDoes DEF ProcessedFields, Stage, Woken, ShownStays
  <2> QED
    BY ONLY <2>1, Passed DEF Passed, ShownStays
<1>17. ASSUME NEW ok \in BOOLEAN, ImportAndPresent(ok) PROVE Passed'
  <2>1. cl'.code # 0 \/ ShownStays
    BY <1>17, ImportAndPresentDoes DEF ProcessedFields, Stage, Woken, ShownStays
  <2> QED
    BY ONLY <2>1, Passed DEF Passed, ShownStays
<1>18. ASSUME NEW ok \in BOOLEAN, Roundtrip(ok) PROVE Passed'
  <2>1. cl'.code # 0 \/ ShownStays
    BY <1>18, RoundtripDoes DEF ProcessedFields, Woken, ShownStays
  <2> QED
    BY ONLY <2>1, Passed DEF Passed, ShownStays
<1>19. ASSUME NEW how \in {"eos", "error"}, StreamEnds(how) PROVE Passed'
  <2>1. cl'.code # 0 \/ ShownStays
    BY <1>19, StreamEndsDoes DEF ShownStays
  <2> QED
    BY ONLY <2>1, Passed DEF Passed, ShownStays
<1>20. ASSUME NEW feedback \in Feedbacks, OnFeedback(feedback) PROVE Passed'
  <2>1. cl' = cl /\ cl.pc \notin {"shutdown", "exit"}
    BY <1>20, OnFeedbackDoes DEF ProcessedFields, Dispatching
  <2> QED
    BY ONLY <2>1, Passed DEF Passed
<1>21. ASSUME NEW feedback \in Feedbacks, OnAsyncFeedback(feedback) PROVE Passed'
  <2>1. cl' = cl /\ cl.pc \notin {"shutdown", "exit"}
    BY <1>21, OnAsyncFeedbackDoes DEF ProcessedFields, Dispatching
  <2> QED
    BY ONLY <2>1, Passed DEF Passed
<1>22. CASE UNCHANGED clientVars
  <2>1. ShownStays
    BY <1>22 DEF clientVars, ShownStays
  <2> QED
    BY ONLY <2>1, Passed DEF Passed, ShownStays
<1> QED
  BY <1>1, <1>2, <1>3, <1>4, <1>5, <1>6, <1>7, <1>8, <1>9, <1>10, <1>11,
     <1>12, <1>13, <1>14, <1>15, <1>16, <1>17, <1>18, <1>19, <1>20, <1>21, <1>22
    DEF ClientNext, ClientMain, Streaming, Presenting

\* The order shutdown_graphics releases them in, and what each was made from.
LEMMA GraphicsReleaseIs ==
    /\ Len(GraphicsRelease) = 17 /\ DOMAIN GraphicsRelease = 1..17
    /\ GraphicsRelease[1] = "vertex_array" /\ GraphicsRelease[2] = "program"
    /\ GraphicsRelease[3] = "context" /\ GraphicsRelease[4] = "egl_surface"
    /\ GraphicsRelease[5] = "egl_display" /\ GraphicsRelease[6] = "window"
    /\ GraphicsRelease[7] = "toplevel" /\ GraphicsRelease[8] = "xdg_surface"
    /\ GraphicsRelease[9] = "timer" /\ GraphicsRelease[10] = "fifo"
    /\ GraphicsRelease[11] = "surface" /\ GraphicsRelease[12] = "presentation"
    /\ GraphicsRelease[13] = "timing_manager" /\ GraphicsRelease[14] = "fifo_manager"
    /\ GraphicsRelease[15] = "wm_base" /\ GraphicsRelease[16] = "compositor"
    /\ GraphicsRelease[17] = "display"
BY DEF GraphicsRelease

LEMMA GraphicsNeedsAre ==
    /\ GraphicsNeeds("display") = {}
    /\ \A g \in Leftovers : GraphicsNeeds(g) = {}
    /\ GraphicsNeeds("compositor") = {"display"}
    /\ GraphicsNeeds("wm_base") = {"display"}
    /\ GraphicsNeeds("presentation") = {"display"}
    /\ GraphicsNeeds("timing_manager") = {"display"}
    /\ GraphicsNeeds("fifo_manager") = {"display"}
    /\ GraphicsNeeds("surface") = {"compositor"}
    /\ GraphicsNeeds("timer") = {"surface", "timing_manager"}
    /\ GraphicsNeeds("fifo") = {"surface", "fifo_manager"}
    /\ GraphicsNeeds("xdg_surface") = {"surface", "wm_base"}
    /\ GraphicsNeeds("toplevel") = {"xdg_surface"}
    /\ GraphicsNeeds("egl_display") = {"display"}
    /\ GraphicsNeeds("window") = {"surface"}
    /\ GraphicsNeeds("egl_surface") = {"egl_display", "window"}
    /\ GraphicsNeeds("context") = {"egl_display"}
    /\ GraphicsNeeds("program") = {"context"}
    /\ GraphicsNeeds("vertex_array") = {"context"}
BY DEF GraphicsNeeds, Leftovers

\* The steps before the n-th have been gone through, as Made has it: what each is
\* made from then exists, and whatever is made is shut down before it.
LEMMA GraphicsSetupNests ==
    ASSUME NEW n \in 1..17, NEW there, NEW object, object = GraphicsSetup[n],
           \A i \in 1..17 : i < n => GraphicsSetup[i] \in there \cup Optional,
           n > 7 => Checked("surface") \subseteq there, n > 16 => EglObjects \subseteq there,
           object \in Dependent => GraphicsNeeds(object) \subseteq there,
           Checked(object) \subseteq there
    PROVE  GraphicsNeeds(object) \subseteq there
<1>1. {"display", "surface", "xdg_surface", "egl_display"} \cap Optional = {}
  BY DEF Optional, Globals, EglObjects, Dependent
<1>2. /\ n > 1 => "display" \in there
      /\ n > 7 => "surface" \in there
      /\ n > 10 => "xdg_surface" \in there
      /\ n > 12 => "egl_display" \in there
  <2>1. /\ GraphicsSetup[1] = "display" /\ GraphicsSetup[7] = "surface"
        /\ GraphicsSetup[10] = "xdg_surface" /\ GraphicsSetup[12] = "egl_display"
    BY GraphicsSetupIs
  <2>2. 1 \in 1..17 /\ 7 \in 1..17 /\ 10 \in 1..17 /\ 12 \in 1..17
    OBVIOUS
  <2>3. /\ n > 1 => 1 < n
        /\ n > 7 => 7 < n
        /\ n > 10 => 10 < n
        /\ n > 12 => 12 < n
    OBVIOUS
  <2> HIDE DEF Optional
  <2>4. ASSUME NEW i \in 1..17, i < n PROVE GraphicsSetup[i] \in there \/ GraphicsSetup[i] \in Optional
    BY <2>4
  <2>5. /\ "display" \notin Optional /\ "surface" \notin Optional
        /\ "xdg_surface" \notin Optional /\ "egl_display" \notin Optional
    BY ONLY <1>1
  <2> QED
    BY ONLY <2>1, <2>2, <2>3, <2>4, <2>5, Zenon
<1>3. /\ Checked("surface") = {"compositor", "wm_base", "presentation"}
      /\ Checked("program") = EglObjects /\ "context" \in EglObjects
      /\ "timer" \in Dependent /\ "fifo" \in Dependent /\ "egl_surface" \in Dependent
  BY DEF Checked, EglObjects, Dependent
<1>4. CASE n = 1
  BY <1>4, GraphicsSetupIs, GraphicsNeedsAre
<1>5. CASE n = 2
  BY <1>5, <1>2, GraphicsSetupIs, GraphicsNeedsAre
<1>6. CASE n = 3
  BY <1>6, <1>2, GraphicsSetupIs, GraphicsNeedsAre
<1>7. CASE n = 4
  BY <1>7, <1>2, GraphicsSetupIs, GraphicsNeedsAre
<1>8. CASE n = 5
  BY <1>8, <1>2, GraphicsSetupIs, GraphicsNeedsAre
<1>9. CASE n = 6
  BY <1>9, <1>2, GraphicsSetupIs, GraphicsNeedsAre
<1>10. CASE n = 7
  BY <1>10, <1>3, GraphicsSetupIs, GraphicsNeedsAre
<1>11. CASE n = 8
  BY <1>11, <1>3, GraphicsSetupIs, GraphicsNeedsAre
<1>12. CASE n = 9
  BY <1>12, <1>3, GraphicsSetupIs, GraphicsNeedsAre
<1>13. CASE n = 10
  BY <1>13, <1>2, <1>3, GraphicsSetupIs, GraphicsNeedsAre
<1>14. CASE n = 11
  BY <1>14, <1>2, GraphicsSetupIs, GraphicsNeedsAre
<1>15. CASE n = 12
  BY <1>15, <1>2, GraphicsSetupIs, GraphicsNeedsAre
<1>16. CASE n = 13
  BY <1>16, <1>2, GraphicsSetupIs, GraphicsNeedsAre
<1>17. CASE n = 14
  BY <1>17, <1>3, GraphicsSetupIs, GraphicsNeedsAre
<1>18. CASE n = 15
  BY <1>18, <1>2, GraphicsSetupIs, GraphicsNeedsAre
<1>19. CASE n = 16
  BY <1>19, <1>3, GraphicsSetupIs, GraphicsNeedsAre
<1>20. CASE n = 17
  BY <1>20, <1>3, GraphicsSetupIs, GraphicsNeedsAre
<1> QED
  BY <1>4, <1>5, <1>6, <1>7, <1>8, <1>9, <1>10, <1>11, <1>12, <1>13, <1>14, <1>15,
     <1>16, <1>17, <1>18, <1>19, <1>20

LEMMA GraphicsReleaseNests ==
    ASSUME NEW i \in 1..17, NEW j \in 1..17, GraphicsRelease[i] \in GraphicsNeeds(GraphicsRelease[j])
    PROVE  j < i
<1>1. CASE j = 1
  BY <1>1, GraphicsReleaseIs, GraphicsNeedsAre
<1>2. CASE j = 2
  BY <1>2, GraphicsReleaseIs, GraphicsNeedsAre
<1>3. CASE j = 3
  BY <1>3, GraphicsReleaseIs, GraphicsNeedsAre
<1>4. CASE j = 4
  BY <1>4, GraphicsReleaseIs, GraphicsNeedsAre
<1>5. CASE j = 5
  BY <1>5, GraphicsReleaseIs, GraphicsNeedsAre
<1>6. CASE j = 6
  BY <1>6, GraphicsReleaseIs, GraphicsNeedsAre
<1>7. CASE j = 7
  BY <1>7, GraphicsReleaseIs, GraphicsNeedsAre
<1>8. CASE j = 8
  BY <1>8, GraphicsReleaseIs, GraphicsNeedsAre
<1>9. CASE j = 9
  BY <1>9, GraphicsReleaseIs, GraphicsNeedsAre
<1>10. CASE j = 10
  BY <1>10, GraphicsReleaseIs, GraphicsNeedsAre
<1>11. CASE j = 11
  BY <1>11, GraphicsReleaseIs, GraphicsNeedsAre
<1>12. CASE j = 12
  BY <1>12, GraphicsReleaseIs, GraphicsNeedsAre
<1>13. CASE j = 13
  BY <1>13, GraphicsReleaseIs, GraphicsNeedsAre
<1>14. CASE j = 14
  BY <1>14, GraphicsReleaseIs, GraphicsNeedsAre
<1>15. CASE j = 15
  BY <1>15, GraphicsReleaseIs, GraphicsNeedsAre
<1>16. CASE j = 16
  BY <1>16, GraphicsReleaseIs, GraphicsNeedsAre
<1>17. CASE j = 17
  BY <1>17, GraphicsReleaseIs, GraphicsNeedsAre
<1> QED
  BY <1>1, <1>2, <1>3, <1>4, <1>5, <1>6, <1>7, <1>8, <1>9, <1>10, <1>11, <1>12, <1>13, <1>14, <1>15, <1>16, <1>17

LEMMA GraphicsReleased ==
    ASSUME NEW i \in 1..17
    PROVE  \E j \in 1..17 : GraphicsRelease[j] = GraphicsSetup[i]
<1>1. CASE i = 1
  <2>1. GraphicsRelease[17] = GraphicsSetup[i] /\ 17 \in 1..17
    BY <1>1, GraphicsSetupIs, GraphicsReleaseIs
  <2> QED
    BY <2>1
<1>2. CASE i = 2
  <2>1. GraphicsRelease[13] = GraphicsSetup[i] /\ 13 \in 1..17
    BY <1>2, GraphicsSetupIs, GraphicsReleaseIs
  <2> QED
    BY <2>1
<1>3. CASE i = 3
  <2>1. GraphicsRelease[14] = GraphicsSetup[i] /\ 14 \in 1..17
    BY <1>3, GraphicsSetupIs, GraphicsReleaseIs
  <2> QED
    BY <2>1
<1>4. CASE i = 4
  <2>1. GraphicsRelease[16] = GraphicsSetup[i] /\ 16 \in 1..17
    BY <1>4, GraphicsSetupIs, GraphicsReleaseIs
  <2> QED
    BY <2>1
<1>5. CASE i = 5
  <2>1. GraphicsRelease[15] = GraphicsSetup[i] /\ 15 \in 1..17
    BY <1>5, GraphicsSetupIs, GraphicsReleaseIs
  <2> QED
    BY <2>1
<1>6. CASE i = 6
  <2>1. GraphicsRelease[12] = GraphicsSetup[i] /\ 12 \in 1..17
    BY <1>6, GraphicsSetupIs, GraphicsReleaseIs
  <2> QED
    BY <2>1
<1>7. CASE i = 7
  <2>1. GraphicsRelease[11] = GraphicsSetup[i] /\ 11 \in 1..17
    BY <1>7, GraphicsSetupIs, GraphicsReleaseIs
  <2> QED
    BY <2>1
<1>8. CASE i = 8
  <2>1. GraphicsRelease[9] = GraphicsSetup[i] /\ 9 \in 1..17
    BY <1>8, GraphicsSetupIs, GraphicsReleaseIs
  <2> QED
    BY <2>1
<1>9. CASE i = 9
  <2>1. GraphicsRelease[10] = GraphicsSetup[i] /\ 10 \in 1..17
    BY <1>9, GraphicsSetupIs, GraphicsReleaseIs
  <2> QED
    BY <2>1
<1>10. CASE i = 10
  <2>1. GraphicsRelease[8] = GraphicsSetup[i] /\ 8 \in 1..17
    BY <1>10, GraphicsSetupIs, GraphicsReleaseIs
  <2> QED
    BY <2>1
<1>11. CASE i = 11
  <2>1. GraphicsRelease[7] = GraphicsSetup[i] /\ 7 \in 1..17
    BY <1>11, GraphicsSetupIs, GraphicsReleaseIs
  <2> QED
    BY <2>1
<1>12. CASE i = 12
  <2>1. GraphicsRelease[5] = GraphicsSetup[i] /\ 5 \in 1..17
    BY <1>12, GraphicsSetupIs, GraphicsReleaseIs
  <2> QED
    BY <2>1
<1>13. CASE i = 13
  <2>1. GraphicsRelease[6] = GraphicsSetup[i] /\ 6 \in 1..17
    BY <1>13, GraphicsSetupIs, GraphicsReleaseIs
  <2> QED
    BY <2>1
<1>14. CASE i = 14
  <2>1. GraphicsRelease[4] = GraphicsSetup[i] /\ 4 \in 1..17
    BY <1>14, GraphicsSetupIs, GraphicsReleaseIs
  <2> QED
    BY <2>1
<1>15. CASE i = 15
  <2>1. GraphicsRelease[3] = GraphicsSetup[i] /\ 3 \in 1..17
    BY <1>15, GraphicsSetupIs, GraphicsReleaseIs
  <2> QED
    BY <2>1
<1>16. CASE i = 16
  <2>1. GraphicsRelease[2] = GraphicsSetup[i] /\ 2 \in 1..17
    BY <1>16, GraphicsSetupIs, GraphicsReleaseIs
  <2> QED
    BY <2>1
<1>17. CASE i = 17
  <2>1. GraphicsRelease[1] = GraphicsSetup[i] /\ 1 \in 1..17
    BY <1>17, GraphicsSetupIs, GraphicsReleaseIs
  <2> QED
    BY <2>1
<1> QED
  BY <1>1, <1>2, <1>3, <1>4, <1>5, <1>6, <1>7, <1>8, <1>9, <1>10, <1>11, <1>12, <1>13,
     <1>14, <1>15, <1>16, <1>17

\* A step of initialize_graphics, which may find that an object is not there.
LEMMA MadeNest ==
    ASSUME NEW n \in SetupDone, n < Len(GraphicsSetup), GraphicsNest, Made(graphics, n),
           GraphicsStep(GraphicsSetup[n + 1])
    PROVE  GraphicsNest' /\ Made(graphics', n + 1)
<1> DEFINE next == n + 1
<1> DEFINE object == GraphicsSetup[next]
<1>1. n \in Nat /\ next \in 1..17 /\ next \in Nat /\ n \in Int
  BY GraphicsSetupIs DEF SetupDone
<1>2. \/ graphics' = graphics /\ object \in Optional
      \/ /\ graphics' = graphics \cup {object} /\ Checked(object) \subseteq graphics
         /\ object \in Dependent => GraphicsNeeds(object) \subseteq graphics
  BY Zenon DEF GraphicsStep
<1>3. /\ \A i \in 1..17 : i < next => GraphicsSetup[i] \in graphics \cup Optional
      /\ n >= 7 => Checked("surface") \subseteq graphics
      /\ n >= 16 => EglObjects \subseteq graphics
  <2>1. \A i \in 1..17 : i < next => i <= n
    BY <1>1
  <2> QED
    BY <2>1, Zenon DEF Made
<1>4. graphics \subseteq graphics'
  BY <1>2
<1>5. next = 7 => object = "surface"
  BY GraphicsSetupIs
<1>6. next = 16 => object = "program"
  BY GraphicsSetupIs
<1>7. "surface" \notin Optional /\ "program" \notin Optional /\ Checked("program") = EglObjects
  BY DEF Optional, Globals, EglObjects, Dependent, Checked
<1>8. /\ next >= 7 => n >= 7 \/ next = 7
      /\ next >= 16 => n >= 16 \/ next = 16
      /\ next > 7 => n >= 7
      /\ next > 16 => n >= 16
      /\ \A i \in 1..17 : i <= next => i < next \/ i = next
  BY <1>1
<1> DEFINE order == GraphicsSetup
<1>9. \A i \in 1..17 : i <= next => order[i] \in graphics' \cup Optional
  BY ONLY <1>2, <1>3, <1>4, <1>8
<1> HIDE DEF order, object, next
<1>10. next >= 7 => Checked("surface") \subseteq graphics'
  BY ONLY <1>2, <1>3, <1>4, <1>5, <1>7, <1>8
<1>11. next >= 16 => EglObjects \subseteq graphics'
  BY ONLY <1>2, <1>3, <1>4, <1>6, <1>7, <1>8
<1>12. Made(graphics', n + 1)
  BY <1>9, <1>10, <1>11, Zenon DEF Made, next, order
<1>13. CASE graphics' = graphics
  BY <1>12, <1>13 DEF GraphicsNest
<1>14. CASE graphics' # graphics
  <2>1. /\ graphics' = graphics \cup {object} /\ Checked(object) \subseteq graphics
        /\ object \in Dependent => GraphicsNeeds(object) \subseteq graphics
    BY ONLY <1>2, <1>14
  <2>2. object = GraphicsSetup[next]
    BY DEF object
  <2>3. /\ next > 7 => Checked("surface") \subseteq graphics
        /\ next > 16 => EglObjects \subseteq graphics
    BY ONLY <1>3, <1>8, Zenon
  <2>4. GraphicsNeeds(object) \subseteq graphics
    BY ONLY <1>1, <1>3, <2>1, <2>2, <2>3, GraphicsSetupNests, Zenon
  <2>5. \E i \in 1..17 : GraphicsRelease[i] = object
    BY ONLY <1>1, <2>2, GraphicsReleased, Zenon
  <2>6. GraphicsNest'
    BY ONLY <2>1, <2>4, <2>5, GraphicsNest, Zenon DEF GraphicsNest
  <2> QED
    BY ONLY <1>12, <2>6
<1> QED
  BY <1>13, <1>14

\* initialize_graphics makes nothing that shutdown_graphics does not know.
LEMMA SetupNotLeft == \A i \in 1..17 : GraphicsSetup[i] \notin Leftovers
<1>1. /\ \A i \in 1..17 : \E j \in 1..17 : GraphicsRelease[j] = GraphicsSetup[i]
      /\ \A j \in 1..17 : GraphicsRelease[j] \notin Leftovers
  <2>1. \A j \in 1..17 : GraphicsRelease[j] \notin Leftovers
    BY GraphicsReleaseIs DEF Leftovers
  <2> QED
    BY <2>1, GraphicsReleased, Zenon
<1> QED
  BY ONLY <1>1, Zenon

\* What a failure leaves.
LEMMA LeftNest ==
    ASSUME GraphicsNest, NEW left \in SUBSET Leftovers, graphics' = graphics \cup left
    PROVE  GraphicsNest'
<1>1. \A g \in left : g \in Leftovers /\ GraphicsNeeds(g) = {}
  BY GraphicsNeedsAre, Zenon
<1> QED
  BY ONLY <1>1, GraphicsNest, graphics' = graphics \cup left, Zenon DEF GraphicsNest

\* Only what shutdown_graphics knows is released, and when it ends nothing else is left.
LEMMA ShutdownNests ==
    ASSUME GraphicsNest, ShutdownGraphics
    PROVE  /\ GraphicsNest' /\ (cl'.pc # cl.pc => graphics' \subseteq Leftovers)
           /\ graphics' \subseteq graphics
<1> DEFINE left == {i \in DOMAIN GraphicsRelease : GraphicsRelease[i] \in graphics}
<1>0. DOMAIN GraphicsRelease = 1..17
  BY GraphicsReleaseIs
<1>1. CASE left = {}
  <2>1. graphics' = graphics
    BY <1>1, Zenon DEF ShutdownGraphics
  <2>2. \A i \in 1..17 : GraphicsRelease[i] \notin graphics
    BY <1>0, <1>1, Zenon
  <2>3. graphics \subseteq Leftovers
    <3> SUFFICES ASSUME NEW g \in graphics PROVE g \in Leftovers
      OBVIOUS
    <3>1. g \in Leftovers \/ \E i \in 1..17 : GraphicsRelease[i] = g
      BY ONLY GraphicsNest, g \in graphics, Zenon DEF GraphicsNest
    <3>2. CASE \E i \in 1..17 : GraphicsRelease[i] = g
      <4>1. PICK i \in 1..17 : GraphicsRelease[i] = g
        BY ONLY <3>2
      <4> QED
        BY ONLY <4>1, <2>2, g \in graphics, Zenon
    <3> QED
      BY ONLY <3>1, <3>2
  <2> QED
    BY ONLY <2>1, <2>3, GraphicsNest DEF GraphicsNest
<1>2. CASE left # {}
  <2>1. graphics' = graphics \ {GraphicsRelease[Min(left)]} /\ cl' = cl
    BY <1>2, Zenon DEF ShutdownGraphics
  <2>2. left \subseteq 1..17 /\ left \subseteq Nat
    BY <1>0
  <2> DEFINE first == Min(left)
  <2>3. first \in left /\ \A j \in left : first <= j
    BY ONLY <1>2, <2>2, MinLeast, Zenon
  <2> HIDE DEF first
  <2>4. ASSUME NEW g \in graphics, GraphicsRelease[first] \in GraphicsNeeds(g)
        PROVE  FALSE
    <3>1. g \notin Leftovers
      BY <2>4, GraphicsNeedsAre
    <3>2. PICK j \in 1..17 : GraphicsRelease[j] = g
      BY <3>1, Zenon DEF GraphicsNest
    <3>3. j \in left
      BY <1>0, <3>2
    <3>4. j < first
      BY ONLY <2>2, <2>3, <2>4, <3>2, GraphicsReleaseNests
    <3>5. first <= j /\ first \in 1..17
      BY ONLY <2>2, <2>3, <3>3
    <3> QED
      BY ONLY <3>2, <3>4, <3>5
  <2>5. graphics' = graphics \ {GraphicsRelease[first]}
    BY <2>1 DEF first
  <2> HIDE DEF left
  <2>6. GraphicsNest'
    BY ONLY <2>4, <2>5, GraphicsNest, Zenon DEF GraphicsNest
  <2> QED
    BY ONLY <2>1, <2>5, <2>6
<1> QED
  BY <1>1, <1>2

\* The step leaves the objects, and the main thread goes on with them; a run that has failed
\* is not reported as one that passed.
GraphicsStay ==
    /\ graphics' = graphics /\ cl'.step = cl.step
    /\ cl'.pc = cl.pc \/ cl'.pc \in {"wait", "join", "shutdown"}
    /\ stopping.failed => stopping'.failed
    /\ \/ cl'.code = cl.code
       \/ cl.code # 3 /\ (cl'.code # 0 \/ ~stopping.failed)

LEMMA GraphicsKept ==
    ASSUME GraphicsHeld, GraphicsStay
    PROVE  GraphicsHeld'
<1>1. GraphicsNest' /\ (Made(graphics, cl.step) => Made(graphics', cl'.step))
  BY Zenon DEF GraphicsHeld, GraphicsNest, GraphicsStay, Made
<1>2. LeftWhy'
  BY DEF GraphicsHeld, LeftWhy, GraphicsStay
<1>3. /\ cl'.pc = "options" => graphics' = {} /\ cl'.step = 0
      /\ cl'.pc = "graphics" => cl.pc = "graphics"
      /\ cl'.pc = "exit" => graphics' \subseteq Leftovers
  BY DEF GraphicsHeld, GraphicsStay
<1> QED
  BY <1>1, <1>2, <1>3, Zenon DEF GraphicsHeld, GraphicsMade

LEMMA GraphicsHeldNext ==
    ASSUME ClientType, ClientStart, ClientMiddle, StreamPlace, PresenterPlace, GraphicsHeld,
           [ClientNext]_clientVars
    PROVE  GraphicsHeld'
<1> USE DEF ClientType
<1>1. CASE ClientParse
  <2>1. graphics = {} /\ graphics' = {} /\ cl'.step = 0 /\ cl'.pc \in {"graphics", "exit"}
    BY <1>1, ClientParseDoes DEF GraphicsHeld
  <2>2. Made(graphics', cl'.step)
    BY ONLY <2>1 DEF Made
  <2>3. GraphicsNest' /\ LeftWhy'
    BY ONLY <2>1 DEF GraphicsNest, LeftWhy
  <2> QED
    BY ONLY <2>1, <2>2, <2>3, Zenon DEF GraphicsHeld, GraphicsMade
<1>2. CASE PopMessage
  <2>1. GraphicsStay
    BY <1>2, PopMessageDoes DEF Woken, GraphicsStay
  <2> QED
    BY ONLY <2>1, GraphicsHeld, GraphicsKept
<1>3. CASE ShutdownGraphics
  <2>1. /\ cl.pc = "shutdown" /\ cl'.pc \in {"shutdown", "exit"} /\ cl'.code = cl.code
        /\ stopping' = stopping
    BY <1>3, ShutdownGraphicsDoes DEF Apart
  <2>2. GraphicsNest /\ LeftWhy
    BY ONLY GraphicsHeld, Zenon DEF GraphicsHeld
  <2>3. /\ GraphicsNest' /\ (cl'.pc # cl.pc => graphics' \subseteq Leftovers)
        /\ graphics' \subseteq graphics
    BY ONLY <1>3, <2>2, ShutdownNests
  <2>4. /\ cl'.pc # "options" /\ cl'.pc # "graphics"
        /\ cl'.pc = "exit" => graphics' \subseteq Leftovers
    BY ONLY <2>1, <2>3
  <2>5. LeftWhy'
    BY ONLY <2>1, <2>2, <2>3, <2>4 DEF LeftWhy
  <2> QED
    BY ONLY <2>3, <2>4, <2>5, Zenon DEF GraphicsHeld
<1>4. CASE OnNewSample
  <2>1. GraphicsStay
    BY <1>4, OnNewSampleDoes DEF GraphicsStay
  <2> QED
    BY ONLY <2>1, GraphicsHeld, GraphicsKept
<1>5. CASE PutReady
  <2>1. GraphicsStay
    BY <1>5, PutReadyDoes DEF Woken, GraphicsStay
  <2> QED
    BY ONLY <2>1, GraphicsHeld, GraphicsKept
<1>6. CASE TakeReady
  <2>1. GraphicsStay
    BY <1>6, TakeReadyDoes DEF Woken, GraphicsStay
  <2> QED
    BY ONLY <2>1, GraphicsHeld, GraphicsKept
<1>7. CASE AnnounceTaken
  <2>1. GraphicsStay
    BY <1>7, AnnounceTakenDoes DEF Woken, GraphicsStay
  <2> QED
    BY ONLY <2>1, GraphicsHeld, GraphicsKept
<1>8. CASE DispatchFails
  <2>1. GraphicsStay
    BY <1>8, DispatchFailsDoes DEF ProcessedFields, Woken, GraphicsStay
  <2> QED
    BY ONLY <2>1, GraphicsHeld, GraphicsKept
<1>9. CASE DrainAsyncFeedback
  <2>1. GraphicsStay
    BY <1>9, DrainDoes DEF GraphicsStay
  <2> QED
    BY ONLY <2>1, GraphicsHeld, GraphicsKept
<1>10. ASSUME NEW outcome \in Outcomes, InitializeGraphics(outcome) PROVE GraphicsHeld'
  <2>0. /\ cl.pc = "graphics" /\ cl.step \in SetupDone /\ cl.step < Len(GraphicsSetup)
        /\ GraphicsNest /\ LeftWhy /\ Made(graphics, cl.step)
    BY <1>10, InitializeGraphicsDoes DEF ClientMainType, GraphicsHeld, GraphicsMade
  <2>1. CASE /\ cl'.pc = cl.pc /\ cl'.code = cl.code /\ cl'.step = cl.step + 1
             /\ GraphicsStep(GraphicsSetup[cl.step + 1])
    <3>1. GraphicsNest' /\ Made(graphics', cl.step + 1)
      BY ONLY <2>0, <2>1, MadeNest, Zenon
    <3>2. Made(graphics', cl'.step)
      BY ONLY <2>1, <3>1 DEF Made
    <3>3. graphics \cap Leftovers = {}
      BY ONLY <2>0 DEF LeftWhy
    <3>4. cl.step + 1 \in 1..17
      BY ONLY <2>0, GraphicsSetupIs DEF SetupDone
    <3>5. \A i \in 1..17 : GraphicsSetup[i] \notin Leftovers
      BY SetupNotLeft
    <3>6. graphics' \subseteq graphics \cup {GraphicsSetup[cl.step + 1]}
      BY ONLY <2>1 DEF GraphicsStep
    <3>7. LeftWhy'
      BY ONLY <3>3, <3>4, <3>5, <3>6, Zenon DEF LeftWhy
    <3> QED
      BY ONLY <2>0, <2>1, <3>1, <3>2, <3>7 DEF GraphicsHeld, GraphicsMade
  <2>2. CASE /\ cl'.pc = "shutdown" /\ cl'.code = 3
             /\ \E left \in SUBSET Leftovers : graphics' = graphics \cup left
    <3>1. GraphicsNest'
      BY ONLY <2>0, <2>2, LeftNest, Zenon
    <3>2. LeftWhy'
      BY ONLY <2>2 DEF LeftWhy
    <3> QED
      BY ONLY <2>2, <3>1, <3>2 DEF GraphicsHeld
  <2> QED
    BY <1>10, <2>1, <2>2, InitializeGraphicsDoes
<1>11. ASSUME NEW ok \in BOOLEAN, EstablishPhase(ok) PROVE GraphicsHeld'
  <2>1. CASE cl'.pc = cl.pc /\ cl'.code = cl.code /\ cl'.step = cl.step + 1
    <3>1. /\ cl.pc = "graphics" /\ cl.step \in SetupDone /\ cl.step = 17
          /\ graphics' = graphics /\ stopping' = stopping
      BY <1>11, EstablishPhaseDoes, GraphicsSetupIs DEF ClientMainType, Apart
    <3>2. Made(graphics, cl.step) /\ GraphicsNest /\ LeftWhy
      BY ONLY <3>1, GraphicsHeld, Zenon DEF GraphicsHeld, GraphicsMade
    <3>3. GraphicsNest' /\ LeftWhy'
      BY ONLY <2>1, <3>1, <3>2 DEF GraphicsNest, LeftWhy
    <3>4. Made(graphics', cl'.step)
      BY ONLY <2>1, <3>1, <3>2 DEF Made
    <3> QED
      BY ONLY <2>1, <3>1, <3>3, <3>4 DEF GraphicsHeld, GraphicsMade
  <2>2. CASE cl'.pc = "shutdown" /\ cl'.code = 3 /\ cl'.step = cl.step
    <3>1. GraphicsStay
      BY <1>11, <2>2, EstablishPhaseDoes DEF GraphicsStay, Apart, ClientStart
    <3> QED
      BY ONLY <3>1, GraphicsHeld, GraphicsKept
  <2> QED
    BY <1>11, <2>1, <2>2, EstablishPhaseDoes
<1>12. ASSUME NEW ok \in BOOLEAN, StartPlaying(ok) PROVE GraphicsHeld'
  <2>1. GraphicsStay
    BY <1>12, StartPlayingDoes DEF GraphicsStay, ClientStart
  <2> QED
    BY ONLY <2>1, GraphicsHeld, GraphicsKept
<1>13. ASSUME NEW ok \in BOOLEAN, JoinAndStop(ok) PROVE GraphicsHeld'
  <2>1. GraphicsStay
    BY <1>13, JoinAndStopDoes DEF GraphicsStay, ClientMiddle
  <2> QED
    BY ONLY <2>1, GraphicsHeld, GraphicsKept
<1>14. ASSUME NEW ok \in BOOLEAN, OnDecoderInput(ok) PROVE GraphicsHeld'
  <2>1. GraphicsStay
    BY <1>14, OnDecoderInputDoes DEF GraphicsStay
  <2> QED
    BY ONLY <2>1, GraphicsHeld, GraphicsKept
<1>15. ASSUME NEW ok \in BOOLEAN, Admit(ok) PROVE GraphicsHeld'
  <2>1. GraphicsStay
    BY <1>15, AdmitDoes DEF ProcessedFields, Stage, Woken, GraphicsStay
  <2> QED
    BY ONLY <2>1, GraphicsHeld, GraphicsKept
<1>16. ASSUME NEW ok \in BOOLEAN, CheckSample(ok) PROVE GraphicsHeld'
  <2>1. GraphicsStay
    BY <1>16, CheckSampleDoes DEF ProcessedFields, Stage, Woken, GraphicsStay
  <2> QED
    BY ONLY <2>1, GraphicsHeld, GraphicsKept
<1>17. ASSUME NEW ok \in BOOLEAN, ImportAndPresent(ok) PROVE GraphicsHeld'
  <2>1. CASE graphics' = graphics
    <3>1. GraphicsStay
      BY <1>17, <2>1, ImportAndPresentDoes DEF ProcessedFields, Stage, GraphicsStay
    <3> QED
      BY ONLY <3>1, GraphicsHeld, GraphicsKept
  <2>2. CASE /\ ProcessedFields(FALSE)
             /\ \E left \in SUBSET Leftovers : graphics' = graphics \cup left
    <3>1. presenter.stage = "import" /\ cl' = cl
      BY <1>17, ImportAndPresentDoes
    <3>2. cl.pc \in {"wait", "join"} /\ cl.code = -1
      BY <3>1 DEF ClientStart, ClientMiddle, ClientMainType, ClientPlaces
    <3>3. stopping'.failed
      BY ONLY <2>2 DEF ProcessedFields
    <3>4. GraphicsNest
      BY ONLY GraphicsHeld, Zenon DEF GraphicsHeld
    <3>5. GraphicsNest'
      BY ONLY <2>2, <3>4, LeftNest, Zenon
    <3>6. LeftWhy'
      BY ONLY <3>1, <3>2, <3>3 DEF LeftWhy
    <3> QED
      BY ONLY <3>1, <3>2, <3>5, <3>6 DEF GraphicsHeld
  <2> QED
    BY <1>17, <2>1, <2>2, ImportAndPresentDoes
<1>18. ASSUME NEW ok \in BOOLEAN, Roundtrip(ok) PROVE GraphicsHeld'
  <2>1. GraphicsStay
    BY <1>18, RoundtripDoes DEF ProcessedFields, Woken, GraphicsStay
  <2> QED
    BY ONLY <2>1, GraphicsHeld, GraphicsKept
<1>19. ASSUME NEW how \in {"eos", "error"}, StreamEnds(how) PROVE GraphicsHeld'
  <2>1. GraphicsStay
    BY <1>19, StreamEndsDoes DEF GraphicsStay
  <2> QED
    BY ONLY <2>1, GraphicsHeld, GraphicsKept
<1>20. ASSUME NEW feedback \in Feedbacks, OnFeedback(feedback) PROVE GraphicsHeld'
  <2>1. GraphicsStay
    BY <1>20, OnFeedbackDoes DEF ProcessedFields, Woken, GraphicsStay
  <2> QED
    BY ONLY <2>1, GraphicsHeld, GraphicsKept
<1>21. ASSUME NEW feedback \in Feedbacks, OnAsyncFeedback(feedback) PROVE GraphicsHeld'
  <2>1. GraphicsStay
    BY <1>21, OnAsyncFeedbackDoes DEF Dispatching, GraphicsStay
  <2> QED
    BY ONLY <2>1, GraphicsHeld, GraphicsKept
<1>22. CASE UNCHANGED clientVars
  <2>1. GraphicsStay
    BY <1>22 DEF clientVars, GraphicsStay
  <2> QED
    BY ONLY <2>1, GraphicsHeld, GraphicsKept
<1> QED
  BY <1>1, <1>2, <1>3, <1>4, <1>5, <1>6, <1>7, <1>8, <1>9, <1>10, <1>11,
     <1>12, <1>13, <1>14, <1>15, <1>16, <1>17, <1>18, <1>19, <1>20, <1>21, <1>22
    DEF ClientNext, ClientMain, Streaming, Presenting

\* The first state, and every step.
LEMMA ClientInitially ==
    ASSUME ClientInit
    PROVE  ClientInv
<1>1. PICK o \in ClientOptions :
        cl = [opt |-> o, pc |-> "options", code |-> -1, step |-> 0, eos |-> FALSE]
  BY DEF ClientInit
<1>2. /\ cl.opt = o /\ cl.pc = "options" /\ cl.code = -1 /\ cl.step = 0 /\ cl.eos = FALSE
  BY <1>1
<1>3. /\ graphics = {} /\ stamps = <<>> /\ ready = <<>> /\ flight = <<>> /\ shown = <<>>
      /\ alive = {} /\ bus = "none"
      /\ stream.fed = 0 /\ stream.inside = <<>> /\ stream.pc = "off" /\ stream.sample = <<>>
      /\ stream.queued = 0
      /\ stopping.done = FALSE /\ stopping.stop = FALSE /\ stopping.failed = FALSE
      /\ presenter.pc = "none" /\ presenter.stage = "none" /\ presenter.sample = <<>>
  BY DEF ClientInit
<1>4. ClientMainType
  <2>1. 0 \in SetupDone
    BY GraphicsSetupIs DEF SetupDone
  <2> QED
    BY <1>1, <2>1, PlaceNames, CodesAre DEF ClientMainType
<1>5. StreamType
  <2>1. stream = [fed |-> 0, inside |-> <<>>, pc |-> "off", sample |-> <<>>, queued |-> 0]
    BY DEF ClientInit
  <2>2. 0 \in Nat /\ <<>> \in Seq(Numbers) /\ <<>> \in Seq(Samples) /\ "off" \in StreamPlaces
    BY PlaceNames, EmptyTypes
  <2> QED
    BY ONLY <2>1, <2>2, Zenon DEF StreamType
<1>6. StoppingType
  BY DEF ClientInit, StoppingType
<1>7. PresenterType
  <2>1. presenter = [pc |-> "none", stage |-> "none", sample |-> <<>>]
    BY DEF ClientInit
  <2>2. <<>> \in Seq(Samples) /\ "none" \in PresenterPlaces /\ "none" \in PresentStages
    BY PlaceNames, EmptyTypes
  <2> QED
    BY ONLY <2>1, <2>2, Zenon DEF PresenterType
<1>8. SamplesType
  BY <1>3, EmptyTypes, Zenon DEF SamplesType
<1>9. /\ ClientStart /\ ClientMiddle /\ StreamPlace /\ PresenterPlace /\ Stopped
  BY <1>2, <1>3 DEF ClientStart, ClientMiddle, StreamPlace, PresenterPlace, Stopped, Holds
<1>10. Len(<<>>) = 0 /\ 1..0 = {}
  OBVIOUS
<1>11. FlightRoom /\ LeftBehind
  BY <1>2, <1>3, <1>10 DEF FlightRoom, LeftBehind
<1>12. InsideOrder /\ HandsOrder /\ FlightOrder /\ ShownOrder /\ Committed
  BY ONLY <1>2, <1>3, <1>10
  DEF InsideOrder, HandsOrder, FlightOrder, ShownOrder, Committed, Holds, Fresh
<1>13. ClientStamps /\ ClientAlive
  BY <1>3, <1>10, StampedParts, HeldParts DEF ClientStamps, ClientAlive, Holds
<1>14. Counted
  <2>1. /\ stream.fed = 0 /\ Len(stream.inside) = 0 /\ stream.queued = 0 /\ Len(shown) = 0
        /\ 1..Len(stream.inside) = {} /\ ~Holds /\ stream.pc # "present"
    BY ONLY <1>3, <1>10 DEF Holds
  <2> QED
    BY ONLY <2>1 DEF Counted
<1>15. QueuedEnough /\ Passed /\ GraphicsHeld
  BY ONLY <1>2, <1>3 DEF QueuedEnough, Passed, GraphicsHeld, GraphicsNest, LeftWhy
<1> QED
  BY <1>4, <1>5, <1>6, <1>7, <1>8, <1>9, <1>11, <1>12, <1>13, <1>14, <1>15
  DEF ClientInv, ClientType

LEMMA ClientInvNext ==
    ASSUME ClientInv, [ClientNext]_clientVars
    PROVE  ClientInv'
<1>1. /\ ClientType /\ ClientStart /\ ClientMiddle /\ StreamPlace /\ PresenterPlace /\ Stopped
      /\ FlightRoom /\ LeftBehind /\ InsideOrder /\ HandsOrder /\ Committed /\ FlightOrder
      /\ ShownOrder /\ ClientStamps /\ ClientAlive /\ Counted /\ QueuedEnough /\ Passed /\ GraphicsHeld
  BY DEF ClientInv
<1>2. ClientType'
  <2>1. ClientMainType'
    BY ONLY <1>1, [ClientNext]_clientVars, ClientMainTypeNext DEF ClientType
  <2>2. StreamType'
    BY ONLY <1>1, [ClientNext]_clientVars, StreamTypeNext DEF ClientType
  <2>3. StoppingType'
    BY ONLY <1>1, [ClientNext]_clientVars, StoppingTypeNext DEF ClientType
  <2>4. PresenterType'
    BY ONLY <1>1, [ClientNext]_clientVars, PresenterTypeNext DEF ClientType
  <2>5. SamplesType'
    BY ONLY <1>1, [ClientNext]_clientVars, SamplesTypeNext
  <2> QED
    BY ONLY <2>1, <2>2, <2>3, <2>4, <2>5 DEF ClientType
<1>3. ClientStart' /\ ClientMiddle' /\ StreamPlace' /\ PresenterPlace' /\ Stopped'
  BY ONLY <1>1, [ClientNext]_clientVars, ClientStartNext, ClientMiddleNext, StreamPlaceNext,
     PresenterPlaceNext, StoppedNext
<1>4. FlightRoom' /\ LeftBehind'
  BY ONLY <1>1, [ClientNext]_clientVars, FlightRoomNext, LeftBehindNext
<1>5. InsideOrder'
  BY ONLY <1>1, [ClientNext]_clientVars, InsideOrderNext
<1>6. HandsGrow /\ HandsOrder'
  BY ONLY <1>1, <1>2, <1>3, <1>5, [ClientNext]_clientVars, HandsNext DEF HandsGrow
<1>7. FlightOrder' /\ ShownOrder'
  BY ONLY <1>1, <1>2, <1>3, <1>5, <1>6, [ClientNext]_clientVars, OrderNext
<1>8. Committed'
  BY ONLY <1>1, <1>2, <1>3, <1>5, [ClientNext]_clientVars, CommittedNext
<1>9. ClientStamps' /\ ClientAlive'
  BY ONLY <1>1, [ClientNext]_clientVars, ClientStampsNext, ClientAliveNext
<1>10. Counted' /\ QueuedEnough' /\ Passed' /\ GraphicsHeld'
  BY ONLY <1>1, [ClientNext]_clientVars, CountedNext, QueuedEnoughNext, PassedNext,
     GraphicsHeldNext
<1> QED
  BY ONLY <1>2, <1>3, <1>4, <1>5, <1>6, <1>7, <1>8, <1>9, <1>10 DEF ClientInv

\* The invariant of the Client's pipeline holds in every state the program reaches.
LEMMA ClientAlways == ClientSpec => []ClientInv
<1>1. ClientInit => ClientInv
  BY ClientInitially
<1>2. ClientInv /\ [ClientNext]_clientVars => ClientInv'
  BY ClientInvNext
<1> QED
  BY <1>1, <1>2, PTL DEF ClientSpec

\* Frames reach the screen in the order they entered the decoder, none twice, each with its
\* own stamp and never more than the limit in flight; a run that passes has presented every
\* one (process_sample, record_presentation and the verdict of main).
THEOREM PresentedInOrderAlways == ClientSpec => []PresentedInOrder
<1>1. ASSUME ClientInv
      PROVE  PresentedInOrder
  <2>1. \A i \in 1..Len(shown) : shown[i].stamp = shown[i].frame
    BY <1>1 DEF ClientInv, ClientStamps, Stamped
  <2>2. \A i \in 1..Len(shown) - 1 : shown[i].frame < shown[i + 1].frame
    <3>1. Len(shown) \in Nat
      BY <1>1 DEF ClientInv, ClientType, SamplesType
    <3>2. \A i \in 1..Len(shown) - 1 : i \in 1..Len(shown) /\ i + 1 \in 1..Len(shown) /\ i < i + 1
      BY ONLY <3>1
    <3> QED
      BY ONLY <1>1, <3>2 DEF ClientInv, ShownOrder
  <2>3. cl.pc \notin {"options", "exit"} => Len(flight) <= Limit
    <3>1. Limit \in Nat \ {0}
      BY <1>1, LimitPositive DEF ClientInv, ClientType
    <3>2. Async(cl.opt) /\ cl.pc \notin {"options", "exit"} => Len(flight) <= Limit
      BY <1>1, Zenon DEF ClientInv, FlightRoom
    <3>3. ~Async(cl.opt) => Len(flight) = 0 \/ Len(flight) = 1
      BY <1>1, Zenon DEF ClientInv, FlightRoom
    <3>4. ~Async(cl.opt) => Len(flight) <= Limit
      <4>1. \A n : n \in Nat \ {0} => 0 <= n /\ 1 <= n
        OBVIOUS
      <4> QED
        BY ONLY <3>1, <3>3, <4>1, Zenon
    <3> QED
      BY ONLY <3>2, <3>4, Zenon
  <2>4. cl.code = 0 => shown = [i \in 1..cl.opt.frames |-> [frame |-> i, stamp |-> i]]
    BY <1>1, Zenon DEF ClientInv, Passed
  <2> QED
    BY ONLY <2>1, <2>2, <2>3, <2>4, Zenon DEF PresentedInOrder
<1> QED
  BY <1>1, ClientAlways, PTL

\* Whoever ends up with a sample unreferences it, whichever thread stops first, and the
\* objects of initialize_graphics nest and are all released; what shutdown_graphics does not
\* know of exists only after a failure (lines 538, 624, 642 and 678).
THEOREM ClientReleasesAlways == ClientSpec => []ClientReleases
<1>1. ASSUME ClientInv
      PROVE  ClientReleases
  <2>1. ASSUME cl.pc \in {"shutdown", "exit"}
        PROVE  /\ alive = {s.frame : s \in ToSet(ready)}
               /\ alive # {} => stopping.failed /\ cl.code # 0
               /\ cl.code = 0 => flight = <<>>
    <3>1. /\ stream.pc = "off" /\ presenter.stage = "none"
          /\ presenter.pc \in {"none", "gone"}
      BY <1>1, <2>1 DEF ClientInv, ClientMiddle
    <3>2. presenter.sample = <<>> /\ ~Holds
      BY <1>1, <3>1 DEF ClientInv, PresenterPlace, Holds
    <3>3. /\ Held(ready) = {s.frame : s \in ToSet(ready)} /\ Held(<<>>) = {}
      BY <1>1, HeldParts DEF ClientInv, ClientType, SamplesType
    <3>4. alive = Held(ready)
      BY ONLY <1>1, <3>2, <3>3 DEF ClientInv, ClientAlive
    <3>5. ready # <<>> => stopping.failed /\ cl.code # 0
      BY <1>1, <2>1, <3>1 DEF ClientInv, LeftBehind
    <3>6. cl.code = 0 => flight = <<>>
      BY <1>1, <2>1, <3>1 DEF ClientInv, LeftBehind
    <3> QED
      BY ONLY <3>3, <3>4, <3>5, <3>6
  <2>2. /\ \A g \in graphics : GraphicsNeeds(g) \subseteq graphics
        /\ cl.pc = "exit" => graphics \subseteq Leftovers
        /\ graphics \cap Leftovers # {} => cl.code # 0 /\ (cl.code = 3 \/ stopping.failed)
    <3>1. GraphicsNest /\ LeftWhy /\ (cl.pc = "exit" => graphics \subseteq Leftovers)
      BY <1>1, Zenon DEF ClientInv, GraphicsHeld
    <3> QED
      BY ONLY <3>1 DEF GraphicsNest, LeftWhy
  <2> QED
    BY ONLY <2>1, <2>2, Zenon DEF ClientReleases
<1> QED
  BY <1>1, ClientAlways, PTL

\* Both pipelines at once: no slot, stamp or sample of either is overwritten, lost or taken
\* twice between its threads.
THEOREM FramesKeepOrderAlways == PipelineSpec /\ ClientSpec => []FramesKeepOrder
<1>1. FramesInOrder /\ PresentedInOrder => FramesKeepOrder
  BY DEF FramesKeepOrder
<1> QED
  BY <1>1, FramesInOrderAlways, PresentedInOrderAlways, PTL

\* Both pipelines at once: whatever fails, and on whichever thread, each releases what it has
\* acquired, nothing before what was made from it.  The exceptions are named, and none is
\* there in a run that passes: the source of a self test that failed, a shader, and the image
\* and texture of a frame whose drawing failed, which go with their context.
THEOREM ProbesReleaseAlways == PipelineSpec /\ ClientSpec => []ProbesRelease
<1>1. ResourcesNest /\ ClientReleases => ProbesRelease
  BY DEF ProbesRelease
<1> QED
  BY <1>1, ResourcesNestAlways, ClientReleasesAlways, PTL
====
