---- MODULE MicBuffer ----
(***************************************************************************)
(* src/apps/host/macos/audio-device/microphone-buffer.h: the sample        *)
(* history every reader of the virtual microphone shares with one writer.  *)
(* Every atomic store and load is a step.  A sample's payload is the frame *)
(* it was written for and the reset it was written after.                  *)
(***************************************************************************)
EXTENDS Integers

CONSTANTS
    MicFrames,   \* PLANKMicFrames, 8192: slots of the history
    MaxFrame,    \* bound: frames of device time written and read
    MaxResets    \* bound: resets

ASSUME MicBufferAssumption ==
    MicFrames \in Nat \ {0} /\ MaxFrame \in Nat /\ MaxResets \in Nat

VARIABLES
    generation,  \* odd while the buffer is being reset
    firstFrame,
    samples,     \* slot -> [frame, bits]
    resets,      \* resets begun
    latest,      \* the latest frame written since
    micWriter,   \* [op, step, frame]
    micReader    \* [step, generation, first, frame, before, bits, value]

micBufferVars == <<generation, firstFrame, samples, resets, latest, micWriter, micReader>>

NoBits == [frame |-> -1, reset |-> 0]

\* PLANKMicBufferInit.
MicBufferInit ==
    /\ generation = 2 /\ firstFrame = 0 /\ resets = 0 /\ latest = 0
    /\ samples = [s \in 0..MicFrames - 1 |-> [frame |-> 0, bits |-> NoBits]]
    /\ micWriter = [op |-> "none", step |-> 0, frame |-> 0]
    /\ micReader = [step |-> 0, generation |-> 0, first |-> 0, frame |-> 0, before |-> 0,
                    bits |-> NoBits, value |-> NoBits]

-----------------------------------------------------------------------------
(* Writer *)

\* PLANKMicBufferReset(firstFrame): the generation turns odd ...
ResetBegin(first) ==
    /\ micWriter.op = "none" /\ resets < MaxResets
    /\ resets' = resets + 1 /\ latest' = 0 /\ generation' = generation + 1
    /\ micWriter' = [op |-> "reset", step |-> 0, frame |-> first]
    /\ UNCHANGED <<firstFrame, samples, micReader>>

\* ... the stamps are cleared one by one, and it turns even again.
ResetStep ==
    /\ micWriter.op = "reset"
    /\ LET s == micWriter.step
       IN  /\ firstFrame' = IF s = 0 THEN micWriter.frame ELSE firstFrame
           /\ samples' = IF s \in 1..MicFrames THEN [samples EXCEPT ![s - 1].frame = 0] ELSE samples
           /\ generation' = IF s > MicFrames THEN generation + 1 ELSE generation
           /\ micWriter' = IF s > MicFrames THEN [micWriter EXCEPT !.op = "none"]
                           ELSE [micWriter EXCEPT !.step = s + 1]
    /\ UNCHANGED <<resets, latest, micReader>>

\* PLANKMicBufferWrite of one frame; before firstFrame it refuses.  Both writers
\* follow the device clock: they repeat or leave out frames, but never go back by
\* a whole history between two resets.
WriteFrame(f) ==
    /\ micWriter.op = "none" /\ f >= firstFrame /\ f > latest - MicFrames
    /\ latest' = IF f > latest THEN f ELSE latest
    /\ micWriter' = [op |-> "write", step |-> 0, frame |-> f]
    /\ UNCHANGED <<generation, firstFrame, samples, resets, micReader>>

\* Stamp 0, payload, stamp of the frame.
WriteStore ==
    /\ micWriter.op = "write"
    /\ LET f == micWriter.frame
           slot == f % MicFrames
           s == micWriter.step
       IN  /\ samples' = IF s = 0 THEN [samples EXCEPT ![slot].frame = 0]
                         ELSE IF s = 1 THEN [samples EXCEPT ![slot].bits = [frame |-> f, reset |-> resets]]
                         ELSE [samples EXCEPT ![slot].frame = f + 1]
           /\ micWriter' = IF s = 2 THEN [micWriter EXCEPT !.op = "none"]
                           ELSE [micWriter EXCEPT !.step = s + 1]
    /\ UNCHANGED <<generation, firstFrame, resets, latest, micReader>>

-----------------------------------------------------------------------------
(* PLANKMicBufferRead of one frame *)

ReadFrame(f) ==
    /\ micReader.step = 0 /\ generation % 2 = 0
    /\ micReader' = [step |-> 1, generation |-> generation, first |-> 0, frame |-> f,
                     before |-> 0, bits |-> NoBits, value |-> NoBits]
    /\ UNCHANGED <<generation, firstFrame, samples, resets, latest, micWriter>>

\* first; stamp, payload and stamp again.
ReadLoad ==
    /\ micReader.step \in 1..4
    /\ LET slot == samples[micReader.frame % MicFrames]
           hit == micReader.before = micReader.frame + 1 /\ slot.frame = micReader.before
       IN  micReader' =
             CASE micReader.step = 1 ->
                    [micReader EXCEPT !.first = firstFrame,
                                      !.step = IF micReader.frame < firstFrame THEN 5 ELSE 2]
               [] micReader.step = 2 -> [micReader EXCEPT !.before = slot.frame, !.step = 3]
               [] micReader.step = 3 -> [micReader EXCEPT !.bits = slot.bits, !.step = 4]
               [] micReader.step = 4 ->
                    [micReader EXCEPT !.value = IF hit THEN micReader.bits ELSE NoBits, !.step = 5]
    /\ UNCHANGED <<generation, firstFrame, samples, resets, latest, micWriter>>

\* A read that overlaps a reset becomes silence.
ReadFinish ==
    /\ micReader.step = 5
    /\ micReader' = [micReader EXCEPT !.step = 0,
                       !.value = IF micReader.generation = generation THEN @ ELSE NoBits]
    /\ UNCHANGED <<generation, firstFrame, samples, resets, latest, micWriter>>

MicBufferNext ==
    \/ \E f \in 0..MaxFrame : ResetBegin(f) \/ WriteFrame(f) \/ ReadFrame(f)
    \/ ResetStep \/ WriteStore \/ ReadLoad \/ ReadFinish
MicBufferSpec == MicBufferInit /\ [][MicBufferNext]_micBufferVars

-----------------------------------------------------------------------------
(* Properties *)

\* A read returns silence or the sample of exactly the frame it asked for, written
\* since the last reset that had begun when it returned: an overwrite, a reset in
\* the middle of the read or a slot reused for a later frame never shows.
MicReadCurrent ==
    [][(micReader.step = 5 /\ micReader'.step = 0 /\ micReader'.value # NoBits) =>
         micReader'.value = [frame |-> micReader.frame, reset |-> resets]]_micBufferVars
====
