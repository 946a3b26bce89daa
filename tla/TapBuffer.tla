---- MODULE TapBuffer ----
(***************************************************************************)
(* src/apps/host/macos/media/audio-tap-buffer.h and the drain loop that    *)
(* uses it: one realtime producer and one consumer share a ring of blocks  *)
(* through two wrapping 32-bit indices and an overrun counter.  A block    *)
(* is written in two steps, so that a reader could see half of one.        *)
(***************************************************************************)
EXTENDS Integers

CONSTANTS
    TapSlots,    \* PLANKTapSlots, 16
    IndexRange,  \* the indices wrap at 2^32: a multiple of TapSlots
    MaxBlocks    \* bound: blocks the source delivers

ASSUME TapAssumption ==
    /\ TapSlots \in Nat \ {0} /\ MaxBlocks \in Nat
    /\ IndexRange \in Nat /\ IndexRange % TapSlots = 0 /\ IndexRange > TapSlots

VARIABLES
    ring,      \* slot -> [number, whole]
    readIndex, writeIndex, overruns, failed, stopped,
    source,    \* blocks the source has delivered
    pusher,    \* PLANKTapPush: [pc, write]
    drain      \* the drain loop: [pc, handled, last, gap]

tapVars == <<ring, readIndex, writeIndex, overruns, failed, stopped, source, pusher, drain>>

TapInit ==
    /\ ring = [s \in 0..TapSlots - 1 |-> [number |-> 0, whole |-> TRUE]]
    /\ readIndex = 0 /\ writeIndex = 0 /\ overruns = 0
    /\ failed = FALSE /\ stopped = FALSE /\ source = 0
    /\ pusher = [pc |-> "idle", write |-> 0]
    /\ drain = [pc |-> "idle", handled |-> 0, last |-> 0, gap |-> FALSE]

-----------------------------------------------------------------------------
(* Producer: the callback of the audio device *)

\* Mutation: one block too many fits.
PushRoomOneMore(read) == (writeIndex - read) % IndexRange > TapSlots

\* The ring is full, by unsigned subtraction.
PushFull(read) == (writeIndex - read) % IndexRange >= TapSlots

\* Everything up to the first store to the block: a malformed block or a full ring
\* ends here.
PushBegin(valid) ==
    /\ pusher.pc = "idle" /\ ~stopped /\ source < MaxBlocks
    /\ source' = source + 1
    /\ IF ~valid THEN failed' = TRUE /\ UNCHANGED <<ring, overruns, pusher>>
       ELSE IF PushFull(readIndex)
         THEN overruns' = overruns + 1 /\ UNCHANGED <<ring, failed, pusher>>
       ELSE /\ pusher' = [pc |-> "fill", write |-> writeIndex]
            /\ ring' = [ring EXCEPT ![writeIndex % TapSlots] = [number |-> source', whole |-> FALSE]]
            /\ UNCHANGED <<overruns, failed>>
    /\ UNCHANGED <<readIndex, writeIndex, stopped, drain>>

\* The samples, a non-finite one abandons the block, and the release of the index.
PushEnd(finite) ==
    /\ pusher.pc = "fill"
    /\ pusher' = [pusher EXCEPT !.pc = "idle"]
    /\ IF finite THEN /\ ring' = [ring EXCEPT ![pusher.write % TapSlots].whole = TRUE]
                      /\ writeIndex' = (pusher.write + 1) % IndexRange /\ UNCHANGED failed
                 ELSE failed' = TRUE /\ UNCHANGED <<ring, writeIndex>>
    /\ UNCHANGED <<readIndex, overruns, stopped, source, drain>>

-----------------------------------------------------------------------------
(* Consumer: drain on the session queue *)

DrainStart ==
    /\ drain.pc = "idle" /\ ~stopped /\ ~failed /\ (overruns > 0 \/ readIndex # writeIndex)
    /\ drain' = [drain EXCEPT !.pc = "discard", !.handled = 0]
    /\ UNCHANGED <<ring, readIndex, writeIndex, overruns, failed, stopped, source, pusher>>

\* PLANKTapDiscardOverrun takes the count ...
Discard ==
    /\ drain.pc = "discard"
    /\ overruns' = 0
    /\ drain' = [drain EXCEPT !.pc = IF overruns > 0 THEN "drop" ELSE "peek",
                              !.gap = @ \/ overruns > 0]
    /\ UNCHANGED <<ring, readIndex, writeIndex, failed, stopped, source, pusher>>

\* ... and then gives up everything written so far.
DropBacklog ==
    /\ drain.pc = "drop"
    /\ readIndex' = writeIndex
    /\ drain' = [drain EXCEPT !.pc = "peek"]
    /\ UNCHANGED <<ring, writeIndex, overruns, failed, stopped, source, pusher>>

\* PLANKTapPeek and the copy of the block: the encoder gets it, and is told of a
\* discontinuity when one was noticed.
Consume ==
    /\ drain.pc = "peek" /\ readIndex # writeIndex
    /\ drain' = [drain EXCEPT !.pc = "pop", !.last = ring[readIndex % TapSlots].number,
                              !.gap = FALSE, !.handled = @ + 1]
    /\ UNCHANGED <<ring, readIndex, writeIndex, overruns, failed, stopped, source, pusher>>

PeekEmpty ==
    /\ drain.pc = "peek" /\ readIndex = writeIndex
    /\ drain' = [drain EXCEPT !.pc = "idle"]
    /\ UNCHANGED <<ring, readIndex, writeIndex, overruns, failed, stopped, source, pusher>>

\* PLANKTapPop; at most a ring of blocks per turn.
Pop ==
    /\ drain.pc = "pop"
    /\ readIndex' = (readIndex + 1) % IndexRange
    /\ drain' = [drain EXCEPT !.pc = IF drain.handled < TapSlots THEN "discard" ELSE "idle"]
    /\ UNCHANGED <<ring, writeIndex, overruns, failed, stopped, source, pusher>>

StopTap ==
    /\ ~stopped /\ drain.pc = "idle" /\ stopped' = TRUE
    /\ UNCHANGED <<ring, readIndex, writeIndex, overruns, failed, source, pusher, drain>>

TapNext ==
    \/ \E b \in BOOLEAN : PushBegin(b) \/ PushEnd(b)
    \/ DrainStart \/ Discard \/ DropBacklog \/ Consume \/ PeekEmpty \/ Pop \/ StopTap
TapSpec == TapInit /\ [][TapNext]_tapVars

-----------------------------------------------------------------------------
(* Properties *)

\* The encoder receives whole blocks, and each is the successor of the one before
\* unless the consumer has just reported an overrun or the tap has failed: no block after a gap slips
\* through between the overrun and its notice, whatever the indices wrap to.
TapContiguous ==
    [][drain'.last # drain.last =>
         /\ ring[readIndex % TapSlots].whole
         /\ drain'.last > drain.last
         /\ drain.gap \/ failed \/ drain'.last = drain.last + 1]_tapVars
====
