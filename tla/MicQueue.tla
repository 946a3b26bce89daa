---- MODULE MicQueue ----
(***************************************************************************)
(* src/apps/host/macos/audio-device/microphone-queue.h: the producer's     *)
(* queue of PCM between the network and the device clock.  Frames carry    *)
(* their arrival, the sample position they were sent for and their capture *)
(* time, 0 if unknown; the waveform itself, its interpolation and the      *)
(* lifetime counters are left out.  Positions and capture times count      *)
(* frames.                                                                 *)
(***************************************************************************)
EXTENDS Integers, Sequences

CONSTANTS
    PacketFrames,  \* PLANKMicPacketFrames, 480
    QueueFrames,   \* PLANKMicQueueFrames, 2880
    TargetFrames,  \* PLANKMicTargetFrames, 960
    MaxPcmAge,     \* PLANK_MIC_PCM_MAX_AGE_NS, 10 packet times
    MaxPcmTime,    \* bound: time, in packet times
    MaxSample      \* bound: sample positions

ASSUME MicQueueAssumption ==
    /\ PacketFrames \in Nat \ {0, 1} /\ MaxPcmAge \in Nat
    /\ QueueFrames \in Nat /\ TargetFrames \in Nat /\ MaxSample \in Nat
    /\ QueueFrames >= TargetFrames + PacketFrames /\ TargetFrames >= PacketFrames

VARIABLES
    pcm,         \* the queued frames: [arrived, sample, captured]
    nextSample, hasSample, primed,
    average,     \* averageFrames256
    pcmNow,
    block        \* what this step rendered: [frames, capture, at]

micQueueVars == <<pcm, nextSample, hasSample, primed, average, pcmNow, block>>

NoBlock == [frames |-> <<>>, capture |-> 0, at |-> 0]

MicQueueInit ==
    /\ pcm = <<>> /\ nextSample = 0 /\ hasSample = FALSE /\ primed = FALSE
    /\ average = 0 /\ pcmNow = 1 /\ block = NoBlock

\* C division.
Quotient(a, b) == IF a >= 0 THEN a \div b ELSE -((-a) \div b)
From(q, n) == SubSeq(q, n + 1, Len(q))

-----------------------------------------------------------------------------
\* Mutation: a fresh arrival keeps everything before it.
ExpiredNewest(q) == IF q # <<>> /\ pcmNow - q[Len(q)].arrived < MaxPcmAge THEN 0 ELSE Len(q)

\* PLANKMicQueueExpire: how many frames at the head are too old.
Expired(q) ==
    LET fresh == {i \in 1..Len(q) : pcmNow - q[i].arrived < MaxPcmAge}
    IN  IF fresh = {} THEN Len(q) ELSE (CHOOSE i \in fresh : \A o \in fresh : i <= o) - 1

NewFrames(first, count, real, capture) ==
    [i \in 1..count |-> [arrived |-> pcmNow, sample |-> IF real THEN first + i ELSE 0,
                         captured |-> IF capture THEN first + i ELSE 0]]

\* PLANKMicQueueSubmitTimed: a short gap is filled with silence, a long one starts
\* over, and the oldest frames make room.
Submit(sample, capture) ==
    /\ sample + PacketFrames <= MaxSample
    /\ ~hasSample \/ sample >= nextSample
    /\ LET dead == Expired(pcm)
           q == From(pcm, dead)
           missing == IF hasSample THEN sample - nextSample ELSE 0
           fits == missing <= 2 * PacketFrames
                   /\ Len(q) + missing + PacketFrames <= QueueFrames
           kept == IF missing = 0 THEN q
                   ELSE IF fits THEN q \o NewFrames(nextSample, missing, FALSE, FALSE) ELSE <<>>
           over == IF Len(kept) + PacketFrames > QueueFrames
                   THEN Len(kept) + PacketFrames - QueueFrames ELSE 0
       IN  /\ pcm' = From(kept, over) \o NewFrames(sample, PacketFrames, TRUE, capture)
           /\ primed' = (primed /\ dead = 0 /\ (missing = 0 \/ fits))
           /\ average' = IF missing > 0 /\ ~fits THEN 0 ELSE average
    /\ hasSample' = TRUE /\ nextSample' = sample + PacketFrames
    /\ block' = NoBlock /\ UNCHANGED pcmNow

\* One frame more or less than a packet, by the smoothed occupancy.
Consumed(avg) ==
    IF avg > (TargetFrames + (3 * PacketFrames) \div 2) * 256 THEN PacketFrames + 1
    ELSE IF avg < (TargetFrames + PacketFrames) * 256 THEN PacketFrames - 1 ELSE PacketFrames

\* The capture time of a block is that of its first frame, if they all are known
\* and follow each other.
CaptureTime(frames) ==
    IF \A i \in 2..Len(frames) : frames[i - 1].captured # 0
                                 /\ frames[i].captured = frames[i - 1].captured + 1
    THEN frames[1].captured ELSE 0

\* PLANKMicQueueRenderTimed: silence until primed, and again once starved.
Render ==
    LET dead == Expired(pcm)
        q == From(pcm, dead)
        ready == (primed /\ dead = 0) \/ Len(q) >= TargetFrames
        start == IF primed /\ dead = 0 THEN average ELSE Len(q) * 256
        avg == start + Quotient(Len(q) * 256 - start, 32)
        count == IF Consumed(avg) > Len(q) THEN Len(q) ELSE Consumed(avg)
    IN  /\ IF ready /\ Len(q) >= PacketFrames - 1
             THEN /\ block' = [frames |-> SubSeq(q, 1, count),
                                capture |-> CaptureTime(SubSeq(q, 1, count)), at |-> pcmNow]
                  /\ pcm' = From(q, count) /\ average' = avg /\ primed' = TRUE
             ELSE /\ block' = NoBlock
                  /\ pcm' = q /\ primed' = FALSE
                  /\ average' = IF ready THEN start ELSE average
        /\ UNCHANGED <<nextSample, hasSample, pcmNow>>

\* PLANKMicQueueFlush of a stopped device, PLANKMicQueueClear of a mute.
Flush(clear) ==
    /\ pcm' = <<>> /\ primed' = FALSE /\ average' = 0
    /\ hasSample' = (hasSample /\ ~clear) /\ nextSample' = IF clear THEN 0 ELSE nextSample
    /\ block' = NoBlock
    /\ UNCHANGED pcmNow

PcmTime ==
    /\ pcmNow < MaxPcmTime /\ pcmNow' = pcmNow + 1
    /\ block' = NoBlock /\ UNCHANGED <<pcm, nextSample, hasSample, primed, average>>

MicQueueNext ==
    \/ \E n \in 0..MaxSample \div PacketFrames, c \in BOOLEAN : Submit(n * PacketFrames, c)
    \/ \E b \in BOOLEAN : Flush(b)
    \/ Render \/ PcmTime
MicQueueSpec == MicQueueInit /\ [][MicQueueNext]_micQueueVars

-----------------------------------------------------------------------------
(* Properties *)

\* Sound is rendered in the order it was sent and never later than MaxPcmAge after
\* it came, however arrivals, gaps, starvation and rendering interleave; its capture
\* time is only claimed for unbroken speech; and the queue keeps to its capacity.
RenderedFresh ==
    LET f == block.frames
        real == {i \in 1..Len(f) : f[i].sample # 0}
    IN  /\ \A i \in 1..Len(f) : block.at - f[i].arrived < MaxPcmAge
        /\ \A i, j \in real : i < j => f[i].sample < f[j].sample
        /\ block.capture # 0 => real = 1..Len(f) /\ f[Len(f)].sample = f[1].sample + Len(f) - 1
        /\ Len(pcm) <= QueueFrames
====
