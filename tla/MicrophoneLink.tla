---- MODULE MicrophoneLink ----
(***************************************************************************)
(* src/apps/host/macos/audio-device: microphone-driver-ipc.h and the IO    *)
(* side of microphone-driver.c in coreaudiod, the region of shared memory  *)
(* of microphone-link.h, and the producer of microphone-producer.m that    *)
(* writes it.  The broker (root) hands out one region per lease, renews    *)
(* it, takes it back and may die.                                          *)
(*                                                                         *)
(* The histories are one cell each: MicBuffer shows that a read is silence *)
(* or the sample asked for, of the generation it began in.  A sample is    *)
(* tagged with the lease, clock seed and mute epoch it was made under.     *)
(* A producer whose region the driver has let go writes memory nobody      *)
(* reads: only the one of the lease in force takes steps.                  *)
(***************************************************************************)
EXTENDS Integers

CONSTANTS
    Leases,      \* the leases the broker hands out, each once and in this order (only told apart)
    MaxSeed,     \* bound: restarts of the device clock
    MaxFlushes,  \* bound: resets of a region before one more silence or late tick, per lease
    MaxNow,      \* bound: time
    BrokerTicks, \* 2 s of admission per renewal
    InputTicks   \* half a second of input per tick of the driver

ASSUME MicLinkAssumption ==
    /\ Leases \subseteq Nat \ {0} /\ MaxSeed \in Nat /\ MaxNow \in Nat
    /\ MaxFlushes \in Nat
    /\ InputTicks \in Nat /\ BrokerTicks \in Nat

Silent == [lease |-> 0, seed |-> 0, mute |-> 0]

VARIABLES
    micNow,
    hal,      \* [running, seed]: IO state and clock of the device
    priv,     \* the driver's private history: [gen, cell]
    gate,     \* micInputLease and micInputDeadline, all the realtime side sees
    ctl,      \* control queue: [pc, lease, until, copiedSeed, copiedGen, peer]
    region,   \* the region of the lease: [gen, cell, seed, running, producerSeed, deadline]
    prod,     \* its producer: [pc, seed, clock, mute]
    unused,   \* leases not handed out yet
    io,       \* a realtime read: [pc, lease, gen, cell], pc what it does next
    muted,    \* the mute epoch of the leased producer at the start of the last copy
    heard     \* FALSE once a read delivered what should not be heard

micLinkVars == <<micNow, hal, priv, gate, ctl, region, prod, unused, io, muted, heard>>

FreshRegion == [gen |-> 1, cell |-> Silent, seed |-> 0, running |-> FALSE,
                producerSeed |-> 0, deadline |-> 0]
NoProducer == [pc |-> "none", seed |-> 0, clock |-> 0, mute |-> 0]
NoRead == [pc |-> "idle", lease |-> 0, gen |-> 0, cell |-> Silent]

MicLinkInit ==
    /\ micNow = 1 /\ hal = [running |-> FALSE, seed |-> 1]
    /\ priv = [gen |-> 0, cell |-> Silent] /\ gate = [lease |-> 0, deadline |-> 0]
    /\ ctl = [pc |-> "idle", lease |-> 0, until |-> 0, copiedSeed |-> 0, copiedGen |-> 0,
              peer |-> TRUE]
    /\ region = FreshRegion /\ prod = NoProducer /\ unused = Leases
    /\ io = NoRead
    /\ muted = 0 /\ heard = TRUE

ResetPrivate == priv' = [gen |-> priv.gen + 1, cell |-> Silent]

-----------------------------------------------------------------------------
(* HAL: StartIO and StopIO under stateLock, which a tick holds too *)

\* A start from idle resets the history and begins a new clock.
MicStartIO ==
    /\ ctl.pc # "copy" /\ ~hal.running /\ hal.seed < MaxSeed
    /\ hal' = [running |-> TRUE, seed |-> hal.seed + 1]
    /\ ResetPrivate
    /\ UNCHANGED <<micNow, gate, ctl, region, prod, unused, io, muted, heard>>

\* Core Audio stops its IO thread before it calls StopIO.
MicStopIO ==
    /\ ctl.pc # "copy" /\ hal.running /\ io.pc = "idle"
    /\ hal' = [hal EXCEPT !.running = FALSE]
    /\ UNCHANGED <<micNow, priv, gate, ctl, region, prod, unused, io, muted, heard>>

-----------------------------------------------------------------------------
(* Control queue *)

\* micDropLink closes the gate first ...
CloseGate == gate' = [lease |-> 0, deadline |-> 0]
\* ... and forgets the lease once the history is reset.
Forgotten(c) == [c EXCEPT !.lease = 0, !.until = 0, !.copiedSeed = 0, !.copiedGen = 0]

\* The broker's numbers, in any order: the driver only tells them apart.
NextLease(l) == l \in unused /\ \A k \in unused : l <= k

\* Operation 1: a fresh region; the link held so far is dropped first.
AttachDrop(l) ==
    /\ ctl.pc = "idle" /\ ctl.peer /\ NextLease(l)
    /\ unused' = unused \ {l}
    /\ CloseGate /\ ResetPrivate
    /\ ctl' = [Forgotten(ctl) EXCEPT !.pc = "attach", !.lease = l]
    /\ region' = FreshRegion /\ prod' = NoProducer /\ muted' = 0
    /\ UNCHANGED <<micNow, hal, io, heard>>
AttachAdopt ==
    /\ ctl.pc = "attach"
    /\ ctl' = [ctl EXCEPT !.pc = "idle", !.until = micNow + BrokerTicks]
    /\ gate' = [gate EXCEPT !.lease = ctl.lease]
    /\ prod' = [prod EXCEPT !.pc = "idle"]
    /\ UNCHANGED <<micNow, hal, priv, region, unused, io, muted, heard>>

\* Operation 2: only root control extends the admission.
Renew ==
    /\ ctl.pc = "idle" /\ ctl.peer /\ ctl.lease # 0
    /\ ctl' = [ctl EXCEPT !.until = micNow + BrokerTicks]
    /\ UNCHANGED <<micNow, hal, priv, gate, region, prod, unused, io, muted, heard>>

\* Operation 3, or the deadline of the broker in a tick, or the broker is gone.
DropLink(peer) ==
    /\ ctl.pc = "idle" /\ ctl.peer /\ ctl.lease # 0
    /\ CloseGate
    /\ ctl' = [ctl EXCEPT !.pc = "drop", !.peer = peer]
    /\ UNCHANGED <<micNow, hal, priv, region, prod, unused, io, muted, heard>>
DropFinish ==
    /\ ctl.pc = "drop"
    /\ ResetPrivate
    /\ ctl' = [Forgotten(ctl) EXCEPT !.pc = "idle"]
    /\ region' = FreshRegion /\ prod' = NoProducer /\ muted' = 0
    /\ UNCHANGED <<micNow, hal, gate, unused, io, heard>>

\* The timer finds no connection to the broker and makes one.
Reconnect ==
    /\ ctl.pc = "idle" /\ ~ctl.peer
    /\ ctl' = [ctl EXCEPT !.peer = TRUE]
    /\ UNCHANGED <<micNow, hal, priv, gate, region, prod, unused, io, muted, heard>>

\* micIPCTick up to the copy: the clock is published; another clock or another
\* generation of the region empties the history; a producer that is late, or
\* follows another clock, closes the gate until the next tick.
TickBegin ==
    /\ ctl.pc = "idle" /\ ctl.lease # 0
    /\ LET r == region
           stale == hal.seed # ctl.copiedSeed \/ r.gen # ctl.copiedGen
           admit == hal.running /\ r.deadline > micNow /\ r.producerSeed = hal.seed
       IN  IF micNow >= ctl.until
             THEN CloseGate /\ ctl' = [ctl EXCEPT !.pc = "drop"]
                  /\ UNCHANGED <<priv, region, muted>>
             ELSE /\ region' = [r EXCEPT !.seed = hal.seed, !.running = hal.running]
                  /\ IF stale THEN ResetPrivate ELSE UNCHANGED priv
                  /\ gate' = IF stale \/ ~admit THEN [gate EXCEPT !.deadline = 0] ELSE gate
                  /\ ctl' = [ctl EXCEPT !.copiedSeed = hal.seed, !.copiedGen = r.gen,
                                        !.pc = IF admit THEN "copy" ELSE "idle"]
                  /\ muted' = prod.mute
    /\ UNCHANGED <<micNow, hal, prod, unused, io, heard>>

\* The copy, then the deadline: at most half a second ahead, never past the broker's.
TickCopy ==
    /\ ctl.pc = "copy"
    /\ LET r == region
           wanted == IF r.deadline > micNow + InputTicks THEN micNow + InputTicks ELSE r.deadline
       IN  /\ priv' = [priv EXCEPT !.cell = r.cell]
           /\ gate' = [gate EXCEPT !.deadline = IF wanted > ctl.until THEN ctl.until ELSE wanted]
    /\ ctl' = [ctl EXCEPT !.pc = "idle"]
    /\ UNCHANGED <<micNow, hal, region, prod, unused, io, muted, heard>>

-----------------------------------------------------------------------------
(* Producer: tick, silence and stop on the session's queue *)

\* A coherent snapshot of the clock; a device that does not run flushes everything, and
\* a producer that is behind or far ahead of the clock starts anew like after another one.
ProducerTick ==
    /\ prod.pc = "idle"
    /\ \E late \in BOOLEAN :
         /\ late => region.running /\ prod.seed = region.seed /\ region.gen <= MaxFlushes
         /\ IF ~region.running
              THEN /\ region' = [region EXCEPT !.deadline = 0] /\ UNCHANGED prod
              ELSE /\ prod' = [prod EXCEPT !.clock = region.seed,
                                 !.pc = IF late \/ prod.seed # region.seed THEN "reset" ELSE "write"]
                   /\ UNCHANGED region
    /\ UNCHANGED <<micNow, hal, priv, gate, ctl, unused, io, muted, heard>>

\* Resynchronized: close, empty the region, and only then announce the clock.
ProducerReset ==
    /\ prod.pc \in {"reset", "seed"}
    /\ region' = IF prod.pc = "reset"
                 THEN [region EXCEPT !.deadline = 0, !.gen = @ + 1, !.cell = Silent]
                 ELSE [region EXCEPT !.producerSeed = prod.clock]
    /\ prod' = IF prod.pc = "reset" THEN [prod EXCEPT !.pc = "seed", !.seed = prod.clock]
               ELSE [prod EXCEPT !.pc = "write"]
    /\ UNCHANGED <<micNow, hal, priv, gate, ctl, unused, io, muted, heard>>

ProducerWrite ==
    /\ prod.pc \in {"write", "deadline"}
    /\ region' = IF prod.pc = "write"
                 THEN [region EXCEPT !.cell = [lease |-> ctl.lease, seed |-> prod.seed, mute |-> prod.mute]]
                 ELSE [region EXCEPT !.deadline = micNow + InputTicks]
    /\ prod' = [prod EXCEPT !.pc = IF prod.pc = "write" THEN "deadline" ELSE "idle"]
    /\ UNCHANGED <<micNow, hal, priv, gate, ctl, unused, io, muted, heard>>

\* silence: the deadline, then the region's history; what follows is another epoch.
Silence ==
    /\ prod.pc = "idle" /\ region.gen <= MaxFlushes
    /\ region' = [region EXCEPT !.deadline = 0, !.gen = @ + 1, !.cell = Silent]
    /\ prod' = [prod EXCEPT !.mute = @ + 1]
    /\ UNCHANGED <<micNow, hal, priv, gate, ctl, unused, io, muted, heard>>

StopProducer ==
    /\ prod.pc = "idle"
    /\ region' = [region EXCEPT !.deadline = 0]
    /\ prod' = [prod EXCEPT !.pc = "stopped"]
    /\ UNCHANGED <<micNow, hal, priv, gate, ctl, unused, io, muted, heard>>

-----------------------------------------------------------------------------
(* Realtime reader: performIO and micIPCRead *)

\* micInputLease and micInputDeadline are two loads, before the samples are read and after.
IoOpen == micNow < gate.deadline

ReadBegins ==
    /\ io.pc = "idle" /\ hal.running /\ gate.lease # 0
    /\ io' = [io EXCEPT !.pc = "deadline", !.lease = gate.lease]
    /\ UNCHANGED <<micNow, hal, priv, gate, ctl, region, prod, unused, muted, heard>>

ReadAdmitted ==
    /\ io.pc = "deadline"
    /\ io' = IF IoOpen THEN [io EXCEPT !.pc = "gen"] ELSE NoRead
    /\ UNCHANGED <<micNow, hal, priv, gate, ctl, region, prod, unused, muted, heard>>

\* The seqlock read of the private history, in three steps.
ReadCell ==
    /\ io.pc \in {"gen", "cell", "again"}
    /\ io' = CASE io.pc = "gen" -> [io EXCEPT !.pc = "cell", !.gen = priv.gen]
               [] io.pc = "cell" -> [io EXCEPT !.pc = "again", !.cell = priv.cell]
               [] io.pc = "again" -> [io EXCEPT !.pc = "lease",
                                        !.cell = IF priv.gen = io.gen THEN @ ELSE Silent, !.gen = 0]
    /\ UNCHANGED <<micNow, hal, priv, gate, ctl, region, prod, unused, muted, heard>>

\* What may be heard: silence, or a sample of the lease held and the clock that runs.
OfThisLease(cell) == cell = Silent \/ (cell.lease = ctl.lease /\ cell.seed = hal.seed)

\* Mutation: the lease is only looked at before the samples are read.
ReadKeepsLeaseUnchecked ==
    /\ io.pc = "lease"
    /\ io' = [io EXCEPT !.pc = "gate"]
    /\ heard' = (heard /\ OfThisLease(io.cell))
    /\ UNCHANGED <<micNow, hal, priv, gate, ctl, region, prod, unused, muted>>

\* The lease again: another one, or none, is silence.
ReadKeepsLease ==
    /\ io.pc = "lease"
    /\ io' = IF gate.lease = io.lease THEN [io EXCEPT !.pc = "gate"] ELSE NoRead
    /\ heard' = (heard /\ (gate.lease # io.lease \/ OfThisLease(io.cell)))
    /\ UNCHANGED <<micNow, hal, priv, gate, ctl, region, prod, unused, muted>>

\* The deadline again, and what is delivered is compared with what holds now: the lease
\* may have been replaced since the last step, by one the driver has opened already.
ReadReturns ==
    /\ io.pc = "gate"
    /\ io' = NoRead
    /\ heard' = (heard /\ (\/ ~IoOpen \/ OfThisLease(io.cell)
                           \/ /\ ctl.lease \notin {0, io.lease} /\ gate.lease = ctl.lease
                              /\ io.cell.lease = io.lease /\ io.cell.seed = hal.seed)
                       /\ (IoOpen => micNow < ctl.until))
    /\ UNCHANGED <<micNow, hal, priv, gate, ctl, region, prod, unused, muted>>

MicTime ==
    /\ micNow < MaxNow /\ micNow' = micNow + 1
    /\ UNCHANGED <<hal, priv, gate, ctl, region, prod, unused, io, muted, heard>>

MicLinkNext ==
    \/ MicStartIO \/ MicStopIO \/ AttachAdopt \/ Renew \/ DropFinish \/ Reconnect
    \/ TickBegin \/ TickCopy \/ ReadBegins \/ ReadAdmitted \/ ReadCell \/ ReadKeepsLease
    \/ ReadReturns \/ MicTime
    \/ \E b \in BOOLEAN : DropLink(b)
    \/ \E l \in Leases : AttachDrop(l)
    \/ ProducerTick \/ ProducerReset \/ ProducerWrite \/ Silence \/ StopProducer
MicLinkSpec == MicLinkInit /\ [][MicLinkNext]_micLinkVars

-----------------------------------------------------------------------------
(* Properties *)

\* What an application hears was made for the device clock that runs and for the lease
\* that was held when the reader looked at it last, after it had the samples, and it is
\* delivered before the broker's last renewal runs out: neither a restart of the clock, a
\* drop nor a slow producer in the middle of a read or of a copy lets another session's
\* or another timeline's sound through.  A lease that ends between the reader's last two
\* loads is silent, too, unless the next one has been attached and opened by then.  And
\* once the driver has ticked after silence() no sound from before it is in the history
\* the realtime side reads, whatever the producer did during the copy.
OnlyAdmittedSpeech ==
    /\ heard
    /\ (ctl.pc = "idle" /\ ctl.lease # 0 /\ priv.cell.lease = ctl.lease) => priv.cell.mute >= muted
====
