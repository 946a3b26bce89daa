---- MODULE ProbeProofs ----
(***************************************************************************)
(* Proofs about the qualification programs: the encoder pipeline and the   *)
(* raw tablet bridge.                                                      *)
(***************************************************************************)
EXTENDS QualificationPipelines, WacomBridge, WellFoundedInduction, SequenceTheorems, FiniteSetTheorems,
        TLAPS

-----------------------------------------------------------------------------
(* The encoder pipeline *)

Stages == {"lock", "write", "unlock", "unmap", "done"}
MainPlaces ==
    {"options", "setup", "check", "sleep", "grab", "convert", "map", "submit", "handoff", "drain",
     "join", "eos", "catch", "catchjoin", "unwind", "exit"}
WorkerPlaces == {"none", "check", "sleep", "drain", "release", "notify", "gone", "joined"}

\* The slot's surface and picture are the main thread's.
Filling == {"grab", "convert", "map", "submit", "handoff"}

Parsed == OptionRanges(opt) /\ OptionNames(opt) /\ OptionsAgree(opt)
\* The frames whose output has been taken.
Done == Len(written) + dropped
\* The frames handed over whose slots the worker has not given back.
Behind == Len(pending) + (IF drain = <<>> THEN 0 ELSE 1)
\* The frame being drained is among those whose output has been taken.
Past == drain # <<>> /\ drain[2] \in {"unlock", "unmap", "done"}

\* The types, in parts.
PipeScalars ==
    /\ pc \in MainPlaces /\ code \in -1..3 /\ setup \in 0..Len(SetupSteps) /\ frame \in Nat
    /\ worker \in WorkerPlaces /\ dropped \in Nat
PipeFlags == inputDone \in BOOLEAN /\ workerError \in BOOLEAN
PipeArrays == surface \in [Slots -> Nat] /\ stamp \in [Slots -> Nat] /\ inUse \in [Slots -> BOOLEAN]
PipeQueues == pending \in Seq(Slots) /\ written \in Seq(Nat) /\ reference \in Seq(Nat)
PipeDrain == drain # <<>> => drain[1] \in Slots /\ drain[2] \in Stages
PipeType == PipeScalars /\ PipeFlags /\ PipeArrays /\ PipeQueues /\ PipeDrain

\* Where the two threads can be together.
PipePlaces ==
    /\ code = 2 => pc = "exit"
    /\ pc # "options" /\ code # 2 => Parsed
    /\ pc \in {"options", "setup"} =>
         /\ worker = "none" /\ frame = 0 /\ pending = <<>> /\ drain = <<>>
         /\ ~inputDone /\ ~workerError
    /\ pc \notin {"options", "setup", "unwind", "exit"} =>
         setup = Len(SetupSteps) /\ (opt.depth = 1 => worker # "none")
    /\ worker # "none" => opt.depth = 1 /\ pc # "drain" /\ code # 2
    /\ worker = "none" => pending = <<>>
    /\ pc = "drain" <=> drain # <<>> /\ worker = "none"
    /\ worker # "none" => (drain # <<>> <=> worker \in {"drain", "release"})
    /\ drain # <<>> => (drain[2] = "done" <=> worker = "release")
    /\ workerError => worker \in {"gone", "joined"}
    /\ worker = "gone" /\ ~workerError => inputDone /\ pending = <<>>
    /\ inputDone => workerError \/ pc \in {"join", "eos", "catchjoin", "unwind", "exit"}
    /\ worker = "joined" => pc \in {"eos", "catch", "unwind", "exit"}
    /\ pc \in {"eos", "unwind", "exit"} => worker \in {"none", "joined"}
    /\ pc \in {"join", "eos"} => frame = opt.frames
    /\ pc = "eos" => ~workerError /\ pending = <<>>

\* Which frames the slots hold while the worker runs: the other slot the last frame handed
\* over and this one the last but one, as long as the worker has not given them back.
WorkerSlots ==
    worker # "none" /\ ~workerError =>
      /\ Behind <= 2 /\ Behind <= frame
      /\ inUse[1 - slot] <=> Behind > 0
      /\ inUse[slot] <=> Behind > 1
      /\ Behind > 0 => surface[1 - slot] = frame /\ stamp[1 - slot] = frame
      /\ Behind > 1 => surface[slot] = frame - 1 /\ stamp[slot] = frame - 1
      /\ drain # <<>> => drain[1] = IF Behind = 1 THEN 1 - slot ELSE slot
      /\ Len(pending) > 0 => pending[Len(pending)] = 1 - slot
      /\ Len(pending) > 1 => pending[1] = slot
      /\ Done = frame - Behind + (IF Past THEN 1 ELSE 0)
      /\ pc \in Filling => Behind <= 1

\* What the main thread knows of its slot.
MainSlots ==
    /\ pc \in {"options", "setup"} => inUse[0] = FALSE /\ inUse[1] = FALSE
    /\ worker # "none" /\ pc \in Filling => Done >= frame - 1
    /\ pc = "drain" => drain[1] = slot /\ surface[slot] = frameId /\ stamp[slot] = frameId
    /\ pc \in {"map", "submit", "handoff"} => surface[slot] = frameId
    /\ pc = "handoff" => stamp[slot] = frameId
    /\ worker = "none" /\ pc \notin {"catch", "unwind", "exit"} =>
         Done = frame + (IF Past THEN 1 ELSE 0)

\* What the files hold.
PipeFiles ==
    /\ written = Kept(Done)
    /\ reference = IF opt.reference = "none" THEN <<>> ELSE [i \in 1..Done |-> i]
    /\ dropped = IF opt.loss \in 1..Done THEN 1 ELSE 0
    /\ invalidated => opt.loss \in 1..Done
    /\ code = 0 => pc \in {"unwind", "exit"} /\ Done = opt.frames

Objects == {ReleaseOrder[i] : i \in DOMAIN ReleaseOrder}
\* What exists has what it was made from.
HeldNested == held \subseteq Objects \cup {TestSource} /\ \A r \in held : Needs(r) \subseteq held

\* What the set-up has made stays until the unwinding, which leaves nothing but the
\* self test's source, that of a set-up which failed there.
HeldSetup ==
    /\ pc = "options" => held = {}
    /\ pc \notin {"unwind", "exit"} =>
         \A i \in 1..setup : SetupSteps[i] \in held \cup {<<"selftest", 0>>}
    /\ pc = "exit" => held \subseteq {TestSource}
    /\ TestSource \in held => pc \in {"unwind", "exit"} /\ code = 3 /\ setup = Len(CudaSetup)
    /\ setup > Len(CudaSetup) => SelfTestPasses

\* What the threads count on while they work on a slot.
HeldSlots ==
    /\ pc \in {"submit", "handoff"} => <<"mapped", slot>> \in held
    /\ worker \in {"check", "sleep", "drain", "release", "notify"} =>
         \A i \in 1..Len(pending) : <<"mapped", pending[i]>> \in held
    /\ drain # <<>> /\ drain[2] # "done" => <<"mapped", drain[1]>> \in held
    /\ drain # <<>> /\ drain[2] = "unmap" => <<"locked", drain[1]>> \notin held

PipeInv == PipeType /\ PipePlaces /\ WorkerSlots /\ MainSlots /\ PipeFiles
           /\ HeldNested /\ HeldSetup /\ HeldSlots

\* The set-up of the encoder pipeline, step by step.
LEMMA SetupStepsAre ==
    /\ Len(SetupSteps) = 17 /\ Len(CudaSetup) = 4
    /\ SetupSteps[1] = <<"driver", 0>> /\ SetupSteps[2] = <<"context", 0>>
    /\ SetupSteps[3] = <<"stream", 0>> /\ SetupSteps[4] = <<"module", 0>>
    /\ SetupSteps[5] = <<"selftest", 0>>
    /\ SetupSteps[6] = <<"library", 0>> /\ SetupSteps[7] = <<"handle", 0>>
    /\ SetupSteps[8] = <<"session", 0>>
    /\ SetupSteps[9] = <<"loader", 0>> /\ SetupSteps[10] = <<"encoder", 0>>
    /\ SetupSteps[11] = <<"surface", 0>> /\ SetupSteps[12] = <<"registered", 0>>
    /\ SetupSteps[13] = <<"bitstream", 0>>
    /\ SetupSteps[14] = <<"surface", 1>> /\ SetupSteps[15] = <<"registered", 1>>
    /\ SetupSteps[16] = <<"bitstream", 1>> /\ SetupSteps[17] = <<"file", 0>>
BY DEF SetupSteps, SelfTest, CudaSetup, CaptureSetup, EncoderSetup

\* Every set-up step finds what it needs among the ones before it.
LEMMA SetupNeeds ==
    ASSUME NEW i \in 1..Len(SetupSteps), NEW r \in Needs(SetupSteps[i])
    PROVE  \E j \in 1..i - 1 : SetupSteps[j] = r /\ r # <<"selftest", 0>>
<1> USE SetupStepsAre
<1>1. CASE i \in 1..5
  BY <1>1, SMTT(30) DEF Needs
<1>2. CASE i \in 6..10
  BY <1>2, SMTT(30) DEF Needs
<1>3. CASE i \in 11..13
  BY <1>3, SMTT(30) DEF Needs
<1>4. CASE i \in 14..17
  BY <1>4, SMTT(30) DEF Needs
<1> QED
  BY <1>1, <1>2, <1>3, <1>4

\* The objects of ~Resources, at their places in it.
LEMMA ReleaseOrderIs ==
    /\ DOMAIN ReleaseOrder = 1..20
    /\ ReleaseOrder[1] = <<"file", 0>>
    /\ ReleaseOrder[2] = <<"locked", 0>> /\ ReleaseOrder[3] = <<"mapped", 0>>
    /\ ReleaseOrder[4] = <<"bitstream", 0>> /\ ReleaseOrder[5] = <<"registered", 0>>
    /\ ReleaseOrder[6] = <<"locked", 1>> /\ ReleaseOrder[7] = <<"mapped", 1>>
    /\ ReleaseOrder[8] = <<"bitstream", 1>> /\ ReleaseOrder[9] = <<"registered", 1>>
    /\ ReleaseOrder[10] = <<"encoder", 0>> /\ ReleaseOrder[11] = <<"loader", 0>>
    /\ ReleaseOrder[12] = <<"session", 0>> /\ ReleaseOrder[13] = <<"handle", 0>>
    /\ ReleaseOrder[14] = <<"library", 0>>
    /\ ReleaseOrder[15] = <<"surface", 0>> /\ ReleaseOrder[16] = <<"surface", 1>>
    /\ ReleaseOrder[17] = <<"stream", 0>> /\ ReleaseOrder[18] = <<"module", 0>>
    /\ ReleaseOrder[19] = <<"context", 0>> /\ ReleaseOrder[20] = <<"driver", 0>>
BY DEF ReleaseOrder

\* Nothing is released before what was made from it.
LEMMA ReleaseNests ==
    ASSUME NEW i \in DOMAIN ReleaseOrder, NEW j \in DOMAIN ReleaseOrder,
           ReleaseOrder[i] \in Needs(ReleaseOrder[j])
    PROVE  j < i
<1> USE ReleaseOrderIs
<1>1. CASE j \in {1, 11, 14, 20}
  BY <1>1 DEF Needs
<1>2. CASE j \in 2..5
  BY <1>2 DEF Needs
<1>3. CASE j \in 6..9
  BY <1>3 DEF Needs
<1>4. CASE j \in {10, 12, 13}
  BY <1>4 DEF Needs
<1>5. CASE j \in 15..19
  BY <1>5 DEF Needs
<1> QED
  BY <1>1, <1>2, <1>3, <1>4, <1>5

\* What the set-up makes is released, and so is what a slot is given.
LEMMA ObjectsAre ==
    /\ \A i \in 1..Len(SetupSteps) : SetupSteps[i] \in Objects \cup {<<"selftest", 0>>}
    /\ \A s \in Slots : <<"mapped", s>> \in Objects /\ <<"locked", s>> \in Objects
<1>1. /\ <<"file", 0>> \in Objects /\ <<"bitstream", 0>> \in Objects /\ <<"registered", 0>> \in Objects
      /\ <<"bitstream", 1>> \in Objects /\ <<"registered", 1>> \in Objects /\ <<"encoder", 0>> \in Objects
      /\ <<"loader", 0>> \in Objects /\ <<"session", 0>> \in Objects /\ <<"handle", 0>> \in Objects
      /\ <<"library", 0>> \in Objects /\ <<"surface", 0>> \in Objects /\ <<"surface", 1>> \in Objects
      /\ <<"stream", 0>> \in Objects /\ <<"module", 0>> \in Objects /\ <<"context", 0>> \in Objects
      /\ <<"driver", 0>> \in Objects
  BY ReleaseOrderIs DEF Objects
<1>2. /\ SetupSteps[1] \in Objects /\ SetupSteps[2] \in Objects /\ SetupSteps[3] \in Objects
      /\ SetupSteps[4] \in Objects /\ SetupSteps[6] \in Objects /\ SetupSteps[7] \in Objects
      /\ SetupSteps[8] \in Objects /\ SetupSteps[9] \in Objects /\ SetupSteps[10] \in Objects
      /\ SetupSteps[11] \in Objects /\ SetupSteps[12] \in Objects /\ SetupSteps[13] \in Objects
      /\ SetupSteps[14] \in Objects /\ SetupSteps[15] \in Objects /\ SetupSteps[16] \in Objects
      /\ SetupSteps[17] \in Objects /\ SetupSteps[5] = <<"selftest", 0>>
  BY ONLY <1>1, SetupStepsAre, Zenon
<1>3. \A i \in 1..17 : SetupSteps[i] \in Objects \cup {<<"selftest", 0>>}
  BY ONLY <1>2
<1>4. \A s \in Slots : <<"mapped", s>> \in Objects /\ <<"locked", s>> \in Objects
  BY ReleaseOrderIs DEF Objects, Slots
<1> QED
  BY <1>3, <1>4, SetupStepsAre

\* A non-empty set of naturals has the least element Min is meant to give.
LEMMA MinLeast ==
    ASSUME NEW T, T \subseteq Nat, T # {}
    PROVE  Min(T) \in T /\ \A y \in T : Min(T) <= y
<1> DEFINE R == OpToRel(<, Nat)
<1>1. IsWellFoundedOn(R, Nat)
  BY NatLessThanWellFounded, Zenon
<1>2. \A y \in Nat, x \in Nat : y < x => <<y, x>> \in R
  BY DEF OpToRel
<1> HIDE DEF R
<1>3. PICK x \in T : \A y \in T : ~ (<<y, x>> \in R)
  BY <1>1, WFMin
<1>4. \A y \in T : x \in Nat /\ y \in Nat /\ ~(y < x)
  BY <1>2, <1>3
<1>5. \A y \in T : x <= y
  BY <1>4
<1> QED
  BY <1>5 DEF Min

LEMMA AppendIn ==
    ASSUME NEW S, NEW s \in Seq(S), NEW e \in S
    PROVE  Append(s, e) \in Seq(S)
OBVIOUS

LEMMA TailIs ==
    ASSUME NEW S, NEW s \in Seq(S), s # <<>>
    PROVE  /\ Tail(s) \in Seq(S) /\ Len(s) \in Nat \ {0} /\ Len(Tail(s)) = Len(s) - 1
           /\ Head(s) = s[1]
           /\ \A i \in 1..Len(Tail(s)) : Tail(s)[i] = s[i + 1] /\ i + 1 \in 1..Len(s)
OBVIOUS

LEMMA AppendIs ==
    ASSUME NEW S, NEW s \in Seq(S), NEW e \in S
    PROVE  /\ Append(s, e) \in Seq(S) /\ Len(s) \in Nat /\ Len(Append(s, e)) = Len(s) + 1
           /\ \A i \in 1..Len(s) : Append(s, e)[i] = s[i]
           /\ Append(s, e)[Len(s) + 1] = e
OBVIOUS

LEMMA LowestIn ==
    ASSUME NEW m
    PROVE  /\ \A n \in 1..m : n \in Nat \ {0}
           /\ \A n \in 0..m : n \in Nat
OBVIOUS

\* What the command line that was accepted gives.
LEMMA ParsedFacts ==
    ASSUME Parsed
    PROVE  /\ opt.depth \in 0..1 /\ opt.frames \in Nat \ {0} /\ opt.loss \in Nat
           /\ opt.delay \in Nat \ {0}
           /\ opt.loss # 0 /\ opt.invalidate /\ opt.depth = 1 => opt.delay >= 2
<1>1. OptionRanges(opt) /\ OptionsAgree(opt)
  BY DEF Parsed
<1>2. /\ opt.depth \in 0..1 /\ opt.frames \in 1..CountLimit /\ opt.delay \in 1..CountLimit
      /\ opt.loss \in 0..CountLimit
  <2>1. /\ opt.depth \in 0..1 /\ {opt.frames, opt.fps, opt.delay} \subseteq 1..CountLimit
        /\ {opt.loss, opt.idr, opt.refs} \subseteq 0..CountLimit
    BY <1>1, Zenon DEF OptionRanges
  <2> QED
    BY ONLY <2>1, Zenon
<1>3. opt.loss # 0 /\ opt.invalidate /\ opt.depth = 1 => opt.delay >= 2
  BY <1>1, Zenon DEF OptionsAgree
<1> QED
  <2>1. \A n \in 1..CountLimit : n \in Nat \ {0}
    BY LowestIn
  <2>2. \A n \in 0..CountLimit : n \in Nat
    BY LowestIn
  <2> QED
    BY ONLY <1>2, <1>3, <2>1, <2>2, Zenon

LEMMA ParsedKept ==
    ASSUME opt' = opt
    PROVE  Parsed' = Parsed /\ \A n : Kept(n)' = Kept(n)
BY DEF Parsed, Kept

\* Every step keeps the types, part by part.
LEMMA PipeScalarsNext ==
    ASSUME PipeScalars, [PipelineNext]_pipelineVars
    PROVE  PipeScalars'
<1> USE SetupStepsAre DEF progVars, slotVars, endVars, outVars,
        PipeScalars, MainPlaces, WorkerPlaces
<1>1. CASE ParseOptions
  BY <1>1 DEF ParseOptions
<1>2. CASE StartLoop
  BY <1>2 DEF StartLoop
<1>3. CASE WaitForSlot
  BY <1>3 DEF WaitForSlot, Throw
<1>4. CASE HandOff
  BY <1>4, SMTT(30) DEF HandOff, Notify
<1>5. CASE FinishInput
  BY <1>5 DEF FinishInput, Notify
<1>6. CASE Join
  BY <1>6 DEF Join, Throw
<1>7. CASE Catch
  BY <1>7 DEF Catch, Notify
<1>8. CASE CatchJoin
  BY <1>8 DEF CatchJoin
<1>9. CASE Unwind
  BY <1>9 DEF Unwind
<1>10. ASSUME NEW ok \in BOOLEAN, Acquire(ok) PROVE PipeScalars'
  BY <1>10 DEF Acquire
<1>11. ASSUME NEW ok \in BOOLEAN, Invalidate(ok) PROVE PipeScalars'
  BY <1>11 DEF Invalidate, Throw
<1>12. ASSUME NEW ok \in BOOLEAN, Grab(ok) PROVE PipeScalars'
  BY <1>12 DEF Grab, Throw
<1>13. ASSUME NEW ok \in BOOLEAN, Convert(ok) PROVE PipeScalars'
  BY <1>13 DEF Convert, Throw
<1>14. ASSUME NEW ok \in BOOLEAN, Map(ok) PROVE PipeScalars'
  BY <1>14 DEF Map, Throw
<1>15. ASSUME NEW ok \in BOOLEAN, Submit(ok) PROVE PipeScalars'
  BY <1>15 DEF Submit, Throw
<1>16. ASSUME NEW ok \in BOOLEAN, DrainLock(ok) PROVE PipeScalars'
  <2>1. UNCHANGED <<setup, frame, dropped>>
    BY <1>16, Zenon DEF DrainLock
  <2>2. DrainFails \/ UNCHANGED <<pc, code, worker>>
    BY <1>16, Zenon DEF DrainLock
  <2>3. pc' \in MainPlaces /\ code' \in -1..3 /\ worker' \in WorkerPlaces
    BY <2>2, SMTT(30) DEF DrainFails, Throw, Notify
  <2> QED
    BY <2>1, <2>3
<1>17. ASSUME NEW ok \in BOOLEAN, DrainWrite(ok) PROVE PipeScalars'
  <2>1. (dropped' = dropped \/ dropped' = dropped + 1) /\ UNCHANGED <<setup, frame>>
    BY <1>17, Zenon DEF DrainWrite
  <2>2. DrainFails \/ UNCHANGED <<pc, code, worker>>
    BY <1>17, Zenon DEF DrainWrite
  <2>3. pc' \in MainPlaces /\ code' \in -1..3 /\ worker' \in WorkerPlaces
    BY <2>2, SMTT(30) DEF DrainFails, Throw, Notify
  <2> QED
    BY <2>1, <2>3
<1>18. ASSUME NEW ok \in BOOLEAN, DrainRelease(ok) PROVE PipeScalars'
  <2>1. frame' \in Nat /\ UNCHANGED <<setup, dropped>>
    BY <1>18, SMTT(30) DEF DrainRelease
  <2>2. pc' \in MainPlaces /\ code' \in -1..3 /\ worker' \in WorkerPlaces
    BY <1>18, SMTT(30) DEF DrainRelease, DrainFails, Throw, Notify
  <2> QED
    BY <2>1, <2>2
<1>19. ASSUME NEW ok \in BOOLEAN, NEW realtime \in BOOLEAN, NEW robust \in BOOLEAN,
             Gates(ok, realtime, robust)
      PROVE  PipeScalars'
  BY <1>19 DEF Gates
<1>20. CASE WorkerTake
  BY <1>20 DEF WorkerTake
<1>21. CASE WorkerRelease
  BY <1>21 DEF WorkerRelease
<1>22. CASE WorkerNotify
  BY <1>22 DEF WorkerNotify, Notify
<1>23. CASE UNCHANGED pipelineVars
  BY <1>23 DEF pipelineVars
<1> QED
  BY <1>1, <1>2, <1>3, <1>4, <1>5, <1>6, <1>7, <1>8, <1>9, <1>10, <1>11, <1>12,
     <1>13, <1>14, <1>15, <1>16, <1>17, <1>18, <1>19, <1>20, <1>21, <1>22, <1>23
    DEF PipelineNext, MainStep, DrainStep, WorkerStep

LEMMA PipeFlagsNext ==
    ASSUME PipeFlags, [PipelineNext]_pipelineVars
    PROVE  PipeFlags'
<1> USE DEF progVars, slotVars, endVars, outVars, PipeFlags
<1>1. CASE ParseOptions
  BY <1>1 DEF ParseOptions
<1>2. CASE StartLoop
  BY <1>2 DEF StartLoop
<1>3. CASE WaitForSlot
  BY <1>3 DEF WaitForSlot, Throw
<1>4. CASE HandOff
  BY <1>4 DEF HandOff, Notify
<1>5. CASE FinishInput
  BY <1>5 DEF FinishInput, Notify
<1>6. CASE Join
  BY <1>6 DEF Join, Throw
<1>7. CASE Catch
  BY <1>7 DEF Catch, Notify
<1>8. CASE CatchJoin
  BY <1>8 DEF CatchJoin
<1>9. CASE Unwind
  BY <1>9 DEF Unwind
<1>10. ASSUME NEW ok \in BOOLEAN, Acquire(ok) PROVE PipeFlags'
  BY <1>10 DEF Acquire
<1>11. ASSUME NEW ok \in BOOLEAN, Invalidate(ok) PROVE PipeFlags'
  BY <1>11 DEF Invalidate, Throw
<1>12. ASSUME NEW ok \in BOOLEAN, Grab(ok) PROVE PipeFlags'
  BY <1>12 DEF Grab, Throw
<1>13. ASSUME NEW ok \in BOOLEAN, Convert(ok) PROVE PipeFlags'
  BY <1>13 DEF Convert, Throw
<1>14. ASSUME NEW ok \in BOOLEAN, Map(ok) PROVE PipeFlags'
  BY <1>14 DEF Map, Throw
<1>15. ASSUME NEW ok \in BOOLEAN, Submit(ok) PROVE PipeFlags'
  BY <1>15 DEF Submit, Throw
<1>16. ASSUME NEW ok \in BOOLEAN, DrainLock(ok) PROVE PipeFlags'
  BY <1>16 DEF DrainLock, DrainFails, Throw, Notify
<1>17. ASSUME NEW ok \in BOOLEAN, DrainWrite(ok) PROVE PipeFlags'
  BY <1>17 DEF DrainWrite, DrainFails, Throw, Notify
<1>18. ASSUME NEW ok \in BOOLEAN, DrainRelease(ok) PROVE PipeFlags'
  BY <1>18 DEF DrainRelease, DrainFails, Throw, Notify
<1>19. ASSUME NEW ok \in BOOLEAN, NEW realtime \in BOOLEAN, NEW robust \in BOOLEAN,
             Gates(ok, realtime, robust)
      PROVE  PipeFlags'
  BY <1>19 DEF Gates
<1>20. CASE WorkerTake
  BY <1>20 DEF WorkerTake
<1>21. CASE WorkerRelease
  BY <1>21 DEF WorkerRelease
<1>22. CASE WorkerNotify
  BY <1>22 DEF WorkerNotify, Notify
<1>23. CASE UNCHANGED pipelineVars
  BY <1>23 DEF pipelineVars
<1> QED
  BY <1>1, <1>2, <1>3, <1>4, <1>5, <1>6, <1>7, <1>8, <1>9, <1>10, <1>11, <1>12,
     <1>13, <1>14, <1>15, <1>16, <1>17, <1>18, <1>19, <1>20, <1>21, <1>22, <1>23
    DEF PipelineNext, MainStep, DrainStep, WorkerStep

LEMMA PipeArraysNext ==
    ASSUME PipeScalars, PipeArrays, PipeDrain, PipePlaces, [PipelineNext]_pipelineVars
    PROVE  PipeArrays'
<1> USE DEF progVars, slotVars, endVars, outVars, PipeScalars, PipeArrays, PipeDrain, Slots, slot, frameId
<1>1. CASE ParseOptions
  BY <1>1 DEF ParseOptions
<1>2. CASE StartLoop
  BY <1>2 DEF StartLoop
<1>3. CASE WaitForSlot
  BY <1>3 DEF WaitForSlot, Throw
<1>4. CASE HandOff
  BY <1>4 DEF HandOff, Notify
<1>5. CASE FinishInput
  BY <1>5 DEF FinishInput, Notify
<1>6. CASE Join
  BY <1>6 DEF Join, Throw
<1>7. CASE Catch
  BY <1>7 DEF Catch, Notify
<1>8. CASE CatchJoin
  BY <1>8 DEF CatchJoin
<1>9. CASE Unwind
  BY <1>9 DEF Unwind
<1>10. ASSUME NEW ok \in BOOLEAN, Acquire(ok) PROVE PipeArrays'
  BY <1>10 DEF Acquire
<1>11. ASSUME NEW ok \in BOOLEAN, Invalidate(ok) PROVE PipeArrays'
  BY <1>11 DEF Invalidate, Throw
<1>12. ASSUME NEW ok \in BOOLEAN, Grab(ok) PROVE PipeArrays'
  BY <1>12 DEF Grab, Throw
<1>13. ASSUME NEW ok \in BOOLEAN, Convert(ok) PROVE PipeArrays'
  BY <1>13 DEF Convert, Throw
<1>14. ASSUME NEW ok \in BOOLEAN, Map(ok) PROVE PipeArrays'
  BY <1>14 DEF Map, Throw
<1>15. ASSUME NEW ok \in BOOLEAN, Submit(ok) PROVE PipeArrays'
  BY <1>15 DEF Submit, Throw
<1>16. ASSUME NEW ok \in BOOLEAN, DrainLock(ok) PROVE PipeArrays'
  BY <1>16 DEF DrainLock, DrainFails, Throw, Notify
<1>17. ASSUME NEW ok \in BOOLEAN, DrainWrite(ok) PROVE PipeArrays'
  BY <1>17 DEF DrainWrite, DrainFails, Throw, Notify
<1>18. ASSUME NEW ok \in BOOLEAN, DrainRelease(ok) PROVE PipeArrays'
  BY <1>18 DEF DrainRelease, DrainFails, Throw, Notify
<1>19. ASSUME NEW ok \in BOOLEAN, NEW realtime \in BOOLEAN, NEW robust \in BOOLEAN,
             Gates(ok, realtime, robust)
      PROVE  PipeArrays'
  BY <1>19 DEF Gates
<1>20. CASE WorkerTake
  BY <1>20 DEF WorkerTake
<1>21. CASE WorkerRelease
  BY <1>21 DEF WorkerRelease
<1>22. CASE WorkerNotify
  BY <1>22 DEF WorkerNotify, Notify
<1>23. CASE UNCHANGED pipelineVars
  BY <1>23 DEF pipelineVars
<1> QED
  BY <1>1, <1>2, <1>3, <1>4, <1>5, <1>6, <1>7, <1>8, <1>9, <1>10, <1>11, <1>12,
     <1>13, <1>14, <1>15, <1>16, <1>17, <1>18, <1>19, <1>20, <1>21, <1>22, <1>23
    DEF PipelineNext, MainStep, DrainStep, WorkerStep

LEMMA PipeQueuesNext ==
    ASSUME PipeScalars, PipeArrays, PipeQueues, PipeDrain, [PipelineNext]_pipelineVars
    PROVE  PipeQueues'
<1> USE DEF progVars, slotVars, endVars, outVars, PipeScalars, PipeArrays, PipeQueues, PipeDrain, slot
<1>1. CASE ParseOptions
  BY <1>1 DEF ParseOptions
<1>2. CASE StartLoop
  BY <1>2 DEF StartLoop
<1>3. CASE WaitForSlot
  BY <1>3 DEF WaitForSlot, Throw
<1>4. CASE HandOff
  <2>1. slot \in Slots
    BY DEF Slots
  <2>2. pending' = pending \/ pending' = Append(pending, slot)
    BY <1>4 DEF HandOff
  <2>3. UNCHANGED <<written, reference>>
    BY <1>4 DEF HandOff
  <2> QED
    BY ONLY <2>1, <2>2, <2>3, PipeQueues, AppendIn, ZenonT(60) DEF PipeQueues
<1>5. CASE FinishInput
  BY <1>5 DEF FinishInput, Notify
<1>6. CASE Join
  BY <1>6 DEF Join, Throw
<1>7. CASE Catch
  BY <1>7 DEF Catch, Notify
<1>8. CASE CatchJoin
  BY <1>8 DEF CatchJoin
<1>9. CASE Unwind
  BY <1>9 DEF Unwind
<1>10. ASSUME NEW ok \in BOOLEAN, Acquire(ok) PROVE PipeQueues'
  BY <1>10 DEF Acquire
<1>11. ASSUME NEW ok \in BOOLEAN, Invalidate(ok) PROVE PipeQueues'
  BY <1>11 DEF Invalidate, Throw
<1>12. ASSUME NEW ok \in BOOLEAN, Grab(ok) PROVE PipeQueues'
  BY <1>12 DEF Grab, Throw
<1>13. ASSUME NEW ok \in BOOLEAN, Convert(ok) PROVE PipeQueues'
  BY <1>13 DEF Convert, Throw
<1>14. ASSUME NEW ok \in BOOLEAN, Map(ok) PROVE PipeQueues'
  BY <1>14 DEF Map, Throw
<1>15. ASSUME NEW ok \in BOOLEAN, Submit(ok) PROVE PipeQueues'
  BY <1>15 DEF Submit, Throw
<1>16. ASSUME NEW ok \in BOOLEAN, DrainLock(ok) PROVE PipeQueues'
  BY <1>16 DEF DrainLock, DrainFails, Throw, Notify
<1>17. ASSUME NEW ok \in BOOLEAN, DrainWrite(ok) PROVE PipeQueues'
  <2>1. surface[drain[1]] \in Nat
    BY <1>17 DEF DrainWrite, Slots
  <2>2. /\ written' = written \/ written' = Append(written, surface[drain[1]])
        /\ reference' = reference \/ reference' = Append(reference, surface[drain[1]])
        /\ pending' = pending
    BY <1>17, Zenon DEF DrainWrite
  <2> QED
    BY <2>1, <2>2, AppendIn, Zenon DEF PipeQueues
<1>18. ASSUME NEW ok \in BOOLEAN, DrainRelease(ok) PROVE PipeQueues'
  BY <1>18 DEF DrainRelease, DrainFails, Throw, Notify
<1>19. ASSUME NEW ok \in BOOLEAN, NEW realtime \in BOOLEAN, NEW robust \in BOOLEAN,
             Gates(ok, realtime, robust)
      PROVE  PipeQueues'
  BY <1>19 DEF Gates
<1>20. CASE WorkerTake
  <2>1. pending' = pending \/ (pending # <<>> /\ pending' = Tail(pending))
    BY <1>20, Zenon DEF WorkerTake
  <2>2. UNCHANGED <<written, reference>>
    BY <1>20 DEF WorkerTake
  <2> QED
    BY ONLY <2>1, <2>2, PipeQueues, HeadTailProperties, Zenon DEF PipeQueues
<1>21. CASE WorkerRelease
  BY <1>21 DEF WorkerRelease
<1>22. CASE WorkerNotify
  BY <1>22 DEF WorkerNotify, Notify
<1>23. CASE UNCHANGED pipelineVars
  BY <1>23 DEF pipelineVars
<1> QED
  BY <1>1, <1>2, <1>3, <1>4, <1>5, <1>6, <1>7, <1>8, <1>9, <1>10, <1>11, <1>12,
     <1>13, <1>14, <1>15, <1>16, <1>17, <1>18, <1>19, <1>20, <1>21, <1>22, <1>23
    DEF PipelineNext, MainStep, DrainStep, WorkerStep

LEMMA PipeDrainNext ==
    ASSUME PipeScalars, PipeQueues, PipeDrain, [PipelineNext]_pipelineVars
    PROVE  PipeDrain'
<1> USE DEF progVars, slotVars, endVars, outVars, PipeScalars, PipeQueues, PipeDrain, Slots, Stages, slot
<1>1. CASE ParseOptions
  BY <1>1 DEF ParseOptions
<1>2. CASE StartLoop
  BY <1>2 DEF StartLoop
<1>3. CASE WaitForSlot
  BY <1>3 DEF WaitForSlot, Throw
<1>4. CASE HandOff
  BY <1>4 DEF HandOff, Notify
<1>5. CASE FinishInput
  BY <1>5 DEF FinishInput, Notify
<1>6. CASE Join
  BY <1>6 DEF Join, Throw
<1>7. CASE Catch
  BY <1>7 DEF Catch, Notify
<1>8. CASE CatchJoin
  BY <1>8 DEF CatchJoin
<1>9. CASE Unwind
  BY <1>9 DEF Unwind
<1>10. ASSUME NEW ok \in BOOLEAN, Acquire(ok) PROVE PipeDrain'
  BY <1>10 DEF Acquire
<1>11. ASSUME NEW ok \in BOOLEAN, Invalidate(ok) PROVE PipeDrain'
  BY <1>11 DEF Invalidate, Throw
<1>12. ASSUME NEW ok \in BOOLEAN, Grab(ok) PROVE PipeDrain'
  BY <1>12 DEF Grab, Throw
<1>13. ASSUME NEW ok \in BOOLEAN, Convert(ok) PROVE PipeDrain'
  BY <1>13 DEF Convert, Throw
<1>14. ASSUME NEW ok \in BOOLEAN, Map(ok) PROVE PipeDrain'
  BY <1>14 DEF Map, Throw
<1>15. ASSUME NEW ok \in BOOLEAN, Submit(ok) PROVE PipeDrain'
  BY <1>15 DEF Submit, Throw
<1>16. ASSUME NEW ok \in BOOLEAN, DrainLock(ok) PROVE PipeDrain'
  BY <1>16 DEF DrainLock, DrainFails, Throw, Notify
<1>17. ASSUME NEW ok \in BOOLEAN, DrainWrite(ok) PROVE PipeDrain'
  BY <1>17 DEF DrainWrite, DrainFails, Throw, Notify
<1>18. ASSUME NEW ok \in BOOLEAN, DrainRelease(ok) PROVE PipeDrain'
  BY <1>18 DEF DrainRelease, DrainFails, Throw, Notify
<1>19. ASSUME NEW ok \in BOOLEAN, NEW realtime \in BOOLEAN, NEW robust \in BOOLEAN,
             Gates(ok, realtime, robust)
      PROVE  PipeDrain'
  BY <1>19 DEF Gates
<1>20. CASE WorkerTake
  BY <1>20 DEF WorkerTake
<1>21. CASE WorkerRelease
  BY <1>21 DEF WorkerRelease
<1>22. CASE WorkerNotify
  BY <1>22 DEF WorkerNotify, Notify
<1>23. CASE UNCHANGED pipelineVars
  BY <1>23 DEF pipelineVars
<1> QED
  BY <1>1, <1>2, <1>3, <1>4, <1>5, <1>6, <1>7, <1>8, <1>9, <1>10, <1>11, <1>12,
     <1>13, <1>14, <1>15, <1>16, <1>17, <1>18, <1>19, <1>20, <1>21, <1>22, <1>23
    DEF PipelineNext, MainStep, DrainStep, WorkerStep

\* The command line is not touched once it has been parsed.
LEMMA OptionsStay ==
    ASSUME [PipelineNext]_pipelineVars
    PROVE  opt' = opt /\ (Parsed => Parsed')
<1>1. ASSUME MainStep PROVE opt' = opt
  BY <1>1, Zenon DEF MainStep, ParseOptions, StartLoop, WaitForSlot, HandOff, FinishInput, Join, Catch,
    CatchJoin, Unwind, Acquire, Invalidate, Grab, Convert, Map, Submit, Gates
<1>2. ASSUME DrainStep \/ WorkerStep \/ UNCHANGED pipelineVars PROVE opt' = opt
  BY <1>2, Zenon DEF DrainStep, WorkerStep, DrainLock, DrainWrite, DrainRelease, WorkerTake,
    WorkerRelease, WorkerNotify, pipelineVars, progVars
<1>3. opt' = opt
  BY <1>1, <1>2 DEF PipelineNext
<1> QED
  BY <1>3, ParsedKept

\* What a failing drain_slot leaves behind.
LEMMA DrainFailsPlaces ==
    ASSUME PipeScalars, PipeFlags, PipeDrain, PipePlaces, drain # <<>>, DrainFails,
           UNCHANGED <<setup, frame, pending>>, [PipelineNext]_pipelineVars
    PROVE  PipePlaces'
<1> USE OptionsStay DEF PipeScalars, PipeFlags, PipeDrain, PipePlaces, MainPlaces, WorkerPlaces
<1>1. CASE opt.depth = 1
  BY <1>1 DEF DrainFails, Notify
<1>2. CASE opt.depth # 1
  BY <1>2 DEF DrainFails, Throw
<1> QED
  BY <1>1, <1>2

\* Where the threads are, step by step.
LEMMA PipePlacesNext ==
    ASSUME PipeScalars, PipeFlags, PipeDrain, PipePlaces, [PipelineNext]_pipelineVars
    PROVE  PipePlaces'
<1> USE OptionsStay, ParsedFacts, SetupStepsAre
      DEF progVars, slotVars, endVars, outVars, PipeScalars, PipeFlags, PipeDrain, PipePlaces, MainPlaces, WorkerPlaces
<1>1. CASE ParseOptions
  <2>1. /\ pc = "options" /\ UNCHANGED <<setup, frame, pending, inputDone, workerError, worker, drain>>
        /\ (Parsed /\ pc' = "setup" /\ code' = code) \/ (pc' = "exit" /\ code' = 2)
    BY <1>1, Zenon DEF ParseOptions, Parsed
  <2> QED
    BY <2>1
<1>2. CASE StartLoop
  BY <1>2 DEF StartLoop
<1>3. CASE WaitForSlot
  <2>1. /\ pc = "check" /\ UNCHANGED <<setup, frame, pending, inputDone, workerError, worker, drain>>
        /\ \/ pc' = "catch" /\ code' = 3
           \/ code' = code /\ pc' = "grab"
           \/ code' = code /\ pc' = "sleep" 
    BY <1>3, Zenon DEF WaitForSlot, Throw
  <2> QED
    BY <2>1, SMTT(30)
<1>4. CASE HandOff
  <2>1. CASE opt.depth = 0
    <3>1. /\ pc = "handoff" /\ pc' = "drain" /\ drain' = <<slot, "lock">>
          /\ UNCHANGED <<code, setup, frame, pending, worker, inputDone, workerError>>
      BY <1>4, <2>1, Zenon DEF HandOff, endVars
    <3>2. drain' # <<>> /\ drain'[2] = "lock"
      BY <3>1
    <3> HIDE <3>2
    <3> QED
      BY <2>1, <3>1, <3>2, SMTT(30)
  <2>2. CASE opt.depth # 0
    <3>1. /\ pc = "handoff" /\ pc' = "check"
          /\ worker' = Notify(worker) /\ UNCHANGED <<code, setup, drain, inputDone, workerError>>
          /\ pending' = Append(pending, slot)
      BY <1>4, <2>2, Zenon DEF HandOff
    <3> QED
      BY <2>2, <3>1, SMTT(30) DEF Notify
  <2> QED
    BY <2>1, <2>2
<1>5. CASE FinishInput
  BY <1>5 DEF FinishInput, Notify
<1>6. CASE Join
  <2>1. /\ pc = "join" /\ worker = "gone" /\ worker' = "joined"
        /\ UNCHANGED <<setup, frame, pending, inputDone, workerError, drain>>
        /\ \/ workerError /\ pc' = "catch" /\ code' = 3
           \/ ~workerError /\ pc' = "eos" /\ code' = code
    BY <1>6, Zenon DEF Join, Throw
  <2>2. CASE workerError
    BY <2>1, <2>2, SMTT(30)
  <2>3. CASE ~workerError
    BY <2>1, <2>3
  <2> QED
    BY <2>2, <2>3
<1>7. CASE Catch
  BY <1>7 DEF Catch, Notify
<1>8. CASE CatchJoin
  BY <1>8 DEF CatchJoin
<1>9. CASE Unwind
  BY <1>9 DEF Unwind
<1>10. ASSUME NEW ok \in BOOLEAN, Acquire(ok) PROVE PipePlaces'
  <2>1. /\ pc = "setup" /\ UNCHANGED <<frame, pending, inputDone, workerError, worker, drain>>
        /\ UNCHANGED <<pc, code>> \/ (pc' = "unwind" /\ code' = 3)
    BY <1>10, Zenon DEF Acquire
  <2>2. CASE UNCHANGED <<pc, code>>
    BY <2>1, <2>2
  <2>3. CASE pc' = "unwind" /\ code' = 3
    BY <2>1, <2>3
  <2> QED
    BY <2>1, <2>2, <2>3
<1>11. ASSUME NEW ok \in BOOLEAN, Invalidate(ok) PROVE PipePlaces'
  <2>1. /\ pc = "grab" /\ UNCHANGED <<setup, frame, pending, inputDone, workerError, worker, drain>>
        /\ UNCHANGED <<pc, code>> \/ (pc' = "catch" /\ code' = 3)
    BY <1>11, Zenon DEF Invalidate, Throw
  <2>2. CASE UNCHANGED <<pc, code>>
    BY <2>1, <2>2
  <2>3. CASE pc' = "catch" /\ code' = 3
    BY <2>1, <2>3, SMTT(30)
  <2> QED
    BY <2>1, <2>2, <2>3
<1>12. ASSUME NEW ok \in BOOLEAN, Grab(ok) PROVE PipePlaces'
  BY <1>12, SMTT(30) DEF Grab, Throw
<1>13. ASSUME NEW ok \in BOOLEAN, Convert(ok) PROVE PipePlaces'
  BY <1>13, SMTT(30) DEF Convert, Throw
<1>14. ASSUME NEW ok \in BOOLEAN, Map(ok) PROVE PipePlaces'
  BY <1>14, SMTT(30) DEF Map, Throw
<1>15. ASSUME NEW ok \in BOOLEAN, Submit(ok) PROVE PipePlaces'
  <2>1. /\ pc = "submit" /\ UNCHANGED <<setup, frame, pending, inputDone, workerError, worker, drain>>
        /\ (pc' = "handoff" /\ code' = code) \/ (pc' = "catch" /\ code' = 3)
    BY <1>15, Zenon DEF Submit, Throw
  <2> QED
    BY <2>1, SMTT(30)
<1>16. ASSUME NEW ok \in BOOLEAN, DrainLock(ok) PROVE PipePlaces'
  <2>1. drain # <<>> /\ drain[2] = "lock" /\ UNCHANGED <<setup, frame, pending>>
    BY <1>16, Zenon DEF DrainLock
  <2>2. DrainFails \/ (UNCHANGED <<pc, code, inputDone, workerError, worker>>
                      /\ drain' = <<drain[1], "write">>)
    BY <1>16, Zenon DEF DrainLock
  <2>3. CASE DrainFails
    BY <2>1, <2>3, DrainFailsPlaces
  <2>4. CASE UNCHANGED <<pc, code, inputDone, workerError, worker>> /\ drain' = <<drain[1], "write">>
    BY <2>1, <2>4
  <2> QED
    BY <2>2, <2>3, <2>4
<1>17. ASSUME NEW ok \in BOOLEAN, DrainWrite(ok) PROVE PipePlaces'
  <2>1. drain # <<>> /\ drain[2] = "write" /\ UNCHANGED <<setup, frame, pending>>
    BY <1>17, Zenon DEF DrainWrite
  <2>2. DrainFails \/ (UNCHANGED <<pc, code, inputDone, workerError, worker>>
                      /\ drain' = <<drain[1], "unlock">>)
    BY <1>17, Zenon DEF DrainWrite
  <2>3. CASE DrainFails
    BY <2>1, <2>3, DrainFailsPlaces
  <2>4. CASE UNCHANGED <<pc, code, inputDone, workerError, worker>> /\ drain' = <<drain[1], "unlock">>
    BY <2>1, <2>4
  <2> QED
    BY <2>2, <2>3, <2>4
<1>18. ASSUME NEW ok \in BOOLEAN, DrainRelease(ok) PROVE PipePlaces'
  <2>1. drain # <<>> /\ drain[2] \in {"unlock", "unmap"} /\ UNCHANGED <<setup, pending>>
    BY <1>18, Zenon DEF DrainRelease
  <2>2. \/ DrainFails /\ UNCHANGED frame
        \/ /\ drain[2] = "unlock" /\ drain' = <<drain[1], "unmap">>
           /\ UNCHANGED <<pc, code, inputDone, workerError, worker, frame>>
        \/ /\ drain[2] = "unmap" /\ opt.depth = 1 /\ drain' = <<drain[1], "done">>
           /\ worker' = "release" /\ UNCHANGED <<pc, code, inputDone, workerError, frame>>
        \/ /\ drain[2] = "unmap" /\ opt.depth # 1 /\ drain' = <<>> /\ frame' = frame + 1
           /\ pc' = "check" /\ UNCHANGED <<code, inputDone, workerError, worker>>
    BY <1>18, <2>1, Zenon DEF DrainRelease
  <2>3. CASE DrainFails /\ UNCHANGED frame
    BY <2>1, <2>3, DrainFailsPlaces
  <2>4. CASE /\ drain[2] = "unlock" /\ drain' = <<drain[1], "unmap">>
             /\ UNCHANGED <<pc, code, inputDone, workerError, worker, frame>>
    BY <2>1, <2>4
  <2>5. CASE /\ drain[2] = "unmap" /\ opt.depth = 1 /\ drain' = <<drain[1], "done">>
             /\ worker' = "release" /\ UNCHANGED <<pc, code, inputDone, workerError, frame>>
    BY <2>1, <2>5
  <2>6. CASE /\ drain[2] = "unmap" /\ opt.depth # 1 /\ drain' = <<>> /\ frame' = frame + 1
             /\ pc' = "check" /\ UNCHANGED <<code, inputDone, workerError, worker>>
    BY <2>1, <2>6
  <2> QED
    BY <2>2, <2>3, <2>4, <2>5, <2>6
<1>19. ASSUME NEW ok \in BOOLEAN, NEW realtime \in BOOLEAN, NEW robust \in BOOLEAN,
             Gates(ok, realtime, robust)
      PROVE  PipePlaces'
  BY <1>19 DEF Gates
<1>20. CASE WorkerTake
  BY <1>20, SMTT(30) DEF WorkerTake
<1>21. CASE WorkerRelease
  BY <1>21 DEF WorkerRelease
<1>22. CASE WorkerNotify
  BY <1>22 DEF WorkerNotify, Notify
<1>23. CASE UNCHANGED pipelineVars
  BY <1>23 DEF pipelineVars
<1> QED
  BY <1>1, <1>2, <1>3, <1>4, <1>5, <1>6, <1>7, <1>8, <1>9, <1>10, <1>11, <1>12,
     <1>13, <1>14, <1>15, <1>16, <1>17, <1>18, <1>19, <1>20, <1>21, <1>22, <1>23
    DEF PipelineNext, MainStep, DrainStep, WorkerStep

LEMMA DrainFailsMain ==
    ASSUME PipeScalars, PipePlaces, MainSlots, DrainFails, drain # <<>>,
           UNCHANGED <<frame, slotVars, outVars>>
    PROVE  MainSlots'
<1>1. CASE opt.depth = 1
  <2>1. /\ pc' = Notify(pc) /\ worker' = "gone" /\ UNCHANGED <<inUse, surface, stamp>>
    BY <1>1 DEF DrainFails, slotVars
  <2>2. worker # "none" /\ pc # "drain"
    BY <1>1, ParsedFacts DEF PipePlaces
  <2>3. UNCHANGED <<Done, slot, frameId>>
    BY DEF Done, slot, frameId, outVars
  <2> QED
    BY ONLY <2>1, <2>2, <2>3, frame' = frame, MainSlots DEF MainSlots, Notify, Filling
<1>2. CASE opt.depth # 1
  <2>1. pc' = "catch"
    BY <1>2 DEF DrainFails, Throw
  <2> QED
    BY ONLY <2>1 DEF MainSlots, Filling
<1> QED
  BY <1>1, <1>2

\* The main thread keeps to its slot.
LEMMA MainSlotsNext ==
    ASSUME PipeScalars, PipeFlags, PipeArrays, PipeQueues, PipeDrain, PipePlaces, WorkerSlots, MainSlots, [PipelineNext]_pipelineVars
    PROVE  MainSlots'
<1> slot \in 0..1
  BY DEF PipeScalars, slot
<1> USE ParsedFacts, OptionsStay
      DEF progVars, slotVars, endVars, outVars, PipeScalars, PipeFlags, PipeArrays, PipeQueues, PipeDrain, PipePlaces, WorkerSlots, MainSlots, Slots, slot, frameId, Behind, Done, Past, Filling, MainPlaces, WorkerPlaces
<1>1. CASE ParseOptions
  BY <1>1 DEF ParseOptions
<1>2. CASE StartLoop
  BY <1>2 DEF StartLoop
<1>3. CASE WaitForSlot
  <2>1. /\ pc = "check" /\ UNCHANGED <<frame, drain, worker, slotVars, outVars>>
        /\ pc' = "grab" => ~(opt.depth = 1 /\ inUse[slot]) /\ ~(opt.depth = 1 /\ workerError)
        /\ pc' \in {"catch", "sleep", "grab"}
    BY <1>3, Zenon DEF WaitForSlot, Throw
  <2>2. UNCHANGED <<Behind, Done, slot, frameId>> /\ (Past' <=> Past)
        /\ UNCHANGED <<inUse, surface, stamp, pending>>
    BY <2>1 DEF Behind, Done, Past, slot, frameId, slotVars, outVars
  <2>3. Behind \in Nat /\ Done \in Nat
    BY ONLY PipeQueues, PipeScalars DEF Behind, Done, PipeQueues, PipeScalars
  <2>4. worker # "none" => opt.depth = 1
    BY ONLY PipePlaces DEF PipePlaces
  <2> HIDE DEF Behind, Done, Past, slot, frameId, slotVars, outVars
  <2>5. worker # "none" /\ pc' = "grab" => Done >= frame - 1
    BY ONLY <2>1, <2>3, <2>4, WorkerSlots, PipeScalars DEF WorkerSlots, PipeScalars
  <2> QED
    BY ONLY <2>1, <2>2, <2>5, MainSlots DEF MainSlots, Filling
<1>4. CASE HandOff
  <2>1. CASE opt.depth = 0
    <3>1. /\ pc = "handoff" /\ pc' = "drain" /\ drain' = <<slot, "lock">>
          /\ UNCHANGED <<frame, worker, surface, stamp, outVars>>
      BY <1>4, <2>1, Zenon DEF HandOff
    <3>2. drain'[1] = slot /\ drain'[2] = "lock" /\ UNCHANGED <<slot, frameId, Done>>
      BY ONLY <3>1 DEF slot, frameId, Done, outVars
    <3>3. ~Past /\ ~Past'
      BY ONLY <2>1, <3>1, <3>2, PipePlaces DEF Past, PipePlaces
    <3> HIDE DEF slot, frameId, Done, Past
    <3> QED
      BY ONLY <3>1, <3>2, <3>3, MainSlots DEF MainSlots, Filling
  <2>2. CASE opt.depth # 0
    <3>1. pc = "handoff" /\ pc' = "check" /\ worker' = Notify(worker)
      BY <1>4, <2>2, Zenon DEF HandOff
    <3>2. worker # "none"
      BY ONLY <2>2, <3>1, PipePlaces, ParsedFacts DEF PipePlaces
    <3> QED
      BY ONLY <3>1, <3>2 DEF MainSlots, Filling, Notify
  <2> QED
    BY <2>1, <2>2
<1>5. CASE FinishInput
  BY <1>5 DEF FinishInput, Notify
<1>6. CASE Join
  BY <1>6 DEF Join, Throw
<1>7. CASE Catch
  BY <1>7 DEF Catch, Notify
<1>8. CASE CatchJoin
  BY <1>8 DEF CatchJoin
<1>9. CASE Unwind
  BY <1>9 DEF Unwind
<1>10. ASSUME NEW ok \in BOOLEAN, Acquire(ok) PROVE MainSlots'
  BY <1>10 DEF Acquire
<1>11. ASSUME NEW ok \in BOOLEAN, Invalidate(ok) PROVE MainSlots'
  BY <1>11 DEF Invalidate, Throw
<1>12. ASSUME NEW ok \in BOOLEAN, Grab(ok) PROVE MainSlots'
  BY <1>12 DEF Grab, Throw
<1>13. ASSUME NEW ok \in BOOLEAN, Convert(ok) PROVE MainSlots'
  <2>1. CASE ~ok
    <3>1. /\ pc = "convert" /\ pc' = "catch"
      BY <1>13, <2>1, Zenon DEF Convert, Throw
    <3> QED
      BY ONLY <3>1 DEF MainSlots, Filling
  <2>2. CASE ok
    <3>1. /\ pc = "convert" /\ pc' = "map" /\ surface' = [surface EXCEPT ![slot] = frameId]
          /\ UNCHANGED <<frame, drain, worker, outVars>>
      BY <1>13, <2>2, Zenon DEF Convert
    <3>2. surface'[slot] = frameId
      BY ONLY <3>1, PipeArrays, slot \in 0..1 DEF PipeArrays, Slots
    <3>3. UNCHANGED <<Done, slot, frameId>> /\ (Past' <=> Past)
      BY ONLY <3>1 DEF Done, Past, slot, frameId, outVars
    <3> HIDE DEF Done, Past, slot, frameId
    <3> QED
      BY ONLY <3>1, <3>2, <3>3, MainSlots DEF MainSlots, Filling
  <2> QED
    BY <2>1, <2>2
<1>14. ASSUME NEW ok \in BOOLEAN, Map(ok) PROVE MainSlots'
  BY <1>14 DEF Map, Throw
<1>15. ASSUME NEW ok \in BOOLEAN, Submit(ok) PROVE MainSlots'
  BY <1>15 DEF Submit, Throw
<1>16. ASSUME NEW ok \in BOOLEAN, DrainLock(ok) PROVE MainSlots'
  <2>1. /\ UNCHANGED <<frame, slotVars>> /\ drain # <<>> /\ drain[2] = "lock"
        /\ \/ DrainFails /\ UNCHANGED outVars
           \/ /\ drain' = <<drain[1], "write">> /\ UNCHANGED <<pc, worker>>
              /\ UNCHANGED outVars
    BY <1>16, Zenon DEF DrainLock, endVars, outVars
  <2>2. CASE DrainFails /\ UNCHANGED outVars
    BY <2>1, <2>2, DrainFailsMain
  <2>3. CASE /\ drain' = <<drain[1], "write">> /\ UNCHANGED <<pc, worker>>
             /\ UNCHANGED outVars
    <3>1. drain' # <<>> /\ drain'[1] = drain[1] /\ drain'[2] = "write"
      BY ONLY <2>3
    <3>2. UNCHANGED <<slot, frameId, inUse, surface, stamp>> /\ ~Past /\ ~Past'
      BY ONLY <2>1, <2>3, <3>1 DEF Past, slot, frameId, slotVars
    <3>3. Done' = Done
      BY ONLY <2>3 DEF Done, outVars
    <3> HIDE DEF Done, Past, slot, frameId
    <3> QED
      BY ONLY <2>1, <2>3, <3>1, <3>2, <3>3, MainSlots, PipeScalars DEF MainSlots, PipeScalars
  <2> QED
    BY <2>1, <2>2, <2>3
<1>17. ASSUME NEW ok \in BOOLEAN, DrainWrite(ok) PROVE MainSlots'
  <2>1. /\ UNCHANGED <<frame, slotVars>> /\ drain # <<>> /\ drain[2] = "write"
        /\ \/ DrainFails /\ UNCHANGED outVars
           \/ /\ drain' = <<drain[1], "unlock">> /\ UNCHANGED <<pc, worker>>
              /\ \/ dropped' = dropped + 1 /\ written' = written
                 \/ dropped' = dropped /\ written' = Append(written, surface[drain[1]])
    BY <1>17, Zenon DEF DrainWrite, endVars, outVars
  <2>2. CASE DrainFails /\ UNCHANGED outVars
    BY <2>1, <2>2, DrainFailsMain
  <2>3. CASE /\ drain' = <<drain[1], "unlock">> /\ UNCHANGED <<pc, worker>>
             /\ \/ dropped' = dropped + 1 /\ written' = written
                \/ dropped' = dropped /\ written' = Append(written, surface[drain[1]])
    <3>1. drain' # <<>> /\ drain'[1] = drain[1] /\ drain'[2] = "unlock"
      BY ONLY <2>3
    <3>2. UNCHANGED <<slot, frameId, inUse, surface, stamp>> /\ ~Past /\ Past'
      BY ONLY <2>1, <2>3, <3>1 DEF Past, slot, frameId, slotVars
    <3>3. Done' = Done + 1 /\ Done \in Nat
      <4>1. Len(written) \in Nat /\ dropped \in Nat
        BY ONLY PipeScalars, PipeQueues DEF PipeScalars, PipeQueues
      <4>2. Len(Append(written, surface[drain[1]])) = Len(written) + 1
        BY ONLY PipeQueues DEF PipeQueues
      <4> QED
        BY ONLY <2>3, <4>1, <4>2 DEF Done
    <3> HIDE DEF Done, Past, slot, frameId
    <3> QED
      BY ONLY <2>1, <2>3, <3>1, <3>2, <3>3, MainSlots, PipeScalars DEF MainSlots, PipeScalars
  <2> QED
    BY <2>1, <2>2, <2>3
<1>18. ASSUME NEW ok \in BOOLEAN, DrainRelease(ok) PROVE MainSlots'
  <2>1. /\ UNCHANGED <<slotVars, outVars>> /\ drain # <<>> /\ drain[2] \in {"unlock", "unmap"}
        /\ \/ DrainFails /\ frame' = frame
           \/ drain' = <<drain[1], "unmap">> /\ UNCHANGED <<pc, worker, frame>>
           \/ opt.depth = 1 /\ drain' = <<drain[1], "done">> /\ worker' = "release" /\ UNCHANGED <<pc, frame>>
           \/ /\ opt.depth # 1 /\ drain' = <<>> /\ worker' = worker /\ pc' = "check" /\ frame' = frame + 1
    BY <1>18, Zenon DEF DrainRelease, endVars
  <2>2. CASE DrainFails /\ frame' = frame
    BY <2>1, <2>2, DrainFailsMain
  <2>3. UNCHANGED <<inUse, surface, stamp, pending, Done>> /\ Past
    BY ONLY <2>1 DEF Past, Done, slotVars, outVars
  <2>4. CASE drain' = <<drain[1], "unmap">> /\ UNCHANGED <<pc, worker, frame>>
    <3>1. drain' # <<>> /\ drain'[1] = drain[1] /\ drain'[2] = "unmap"
      BY ONLY <2>4
    <3>2. Past' /\ UNCHANGED <<slot, frameId>>
      BY ONLY <2>4, <3>1 DEF Past, slot, frameId
    <3> HIDE DEF Done, Past, slot, frameId
    <3> QED
      BY ONLY <2>3, <2>4, <3>1, <3>2, MainSlots DEF MainSlots
  <2>5. CASE opt.depth = 1 /\ drain' = <<drain[1], "done">> /\ worker' = "release" /\ UNCHANGED <<pc, frame>>
    <3>1. worker # "none" /\ pc # "drain"
      BY ONLY <2>1, <2>5, PipePlaces, ParsedFacts DEF PipePlaces
    <3>2. UNCHANGED <<slot, frameId>>
      BY ONLY <2>5 DEF slot, frameId
    <3> HIDE DEF Done, Past, slot, frameId
    <3> QED
      BY ONLY <2>3, <2>5, <3>1, <3>2, MainSlots DEF MainSlots
  <2>6. CASE opt.depth # 1 /\ drain' = <<>> /\ worker' = worker /\ pc' = "check" /\ frame' = frame + 1
    <3>1. worker = "none" /\ pc = "drain"
      BY ONLY <2>1, <2>6, PipePlaces DEF PipePlaces
    <3>2. ~Past' /\ Done = frame + 1
      BY ONLY <2>3, <2>6, <3>1, MainSlots DEF Past, MainSlots
    <3> HIDE DEF Done, Past, slot, frameId
    <3> QED
      BY ONLY <2>3, <2>6, <3>1, <3>2, PipeScalars DEF MainSlots, Filling, PipeScalars
  <2> QED
    BY <2>1, <2>2, <2>4, <2>5, <2>6
<1>19. ASSUME NEW ok \in BOOLEAN, NEW realtime \in BOOLEAN, NEW robust \in BOOLEAN,
             Gates(ok, realtime, robust)
      PROVE  MainSlots'
  BY <1>19 DEF Gates
<1>20. CASE WorkerTake
  BY <1>20 DEF WorkerTake
<1>21. CASE WorkerRelease
  BY <1>21 DEF WorkerRelease
<1>22. CASE WorkerNotify
  BY <1>22 DEF WorkerNotify, Notify
<1>23. CASE UNCHANGED pipelineVars
  BY <1>23 DEF pipelineVars
<1> QED
  BY <1>1, <1>2, <1>3, <1>4, <1>5, <1>6, <1>7, <1>8, <1>9, <1>10, <1>11, <1>12,
     <1>13, <1>14, <1>15, <1>16, <1>17, <1>18, <1>19, <1>20, <1>21, <1>22, <1>23
    DEF PipelineNext, MainStep, DrainStep, WorkerStep

LEMMA DrainFailsSlots ==
    ASSUME PipePlaces, DrainFails
    PROVE  WorkerSlots'
<1>1. CASE opt.depth = 1
  BY <1>1, Zenon DEF DrainFails, WorkerSlots
<1>2. CASE opt.depth # 1
  BY <1>2, Zenon DEF DrainFails, PipePlaces, WorkerSlots
<1> QED
  BY <1>1, <1>2

\* The worker and the main thread use different slots.
LEMMA WorkerSlotsNext ==
    ASSUME PipeScalars, PipeFlags, PipeArrays, PipeQueues, PipeDrain, PipePlaces, WorkerSlots, MainSlots, [PipelineNext]_pipelineVars
    PROVE  WorkerSlots'
<1> slot \in 0..1 /\ 1 - slot \in 0..1 /\ 1 - slot # slot
  BY DEF PipeScalars, slot
<1> USE ParsedFacts, OptionsStay
      DEF progVars, slotVars, endVars, outVars, PipeScalars, PipeFlags, PipeArrays, PipeQueues, PipeDrain, PipePlaces, WorkerSlots, MainSlots, Slots, slot, frameId, Behind, Done, Past, Filling, MainPlaces, WorkerPlaces
<1>1. CASE ParseOptions
  BY <1>1 DEF ParseOptions
<1>2. CASE StartLoop
  BY <1>2 DEF StartLoop
<1>3. CASE WaitForSlot
  <2>1. /\ pc = "check" /\ UNCHANGED <<frame, drain, worker, workerError, slotVars, outVars>>
        /\ pc' = "grab" => ~(opt.depth = 1 /\ inUse[slot])
        /\ pc' \in {"catch", "sleep", "grab"}
    BY <1>3, Zenon DEF WaitForSlot, Throw, endVars
  <2>2. UNCHANGED <<Behind, Done, slot>> /\ (Past' <=> Past) /\ UNCHANGED <<inUse, surface, stamp, pending>>
    BY <2>1 DEF Behind, Done, Past, slot, slotVars, outVars
  <2>3. Behind \in Nat
    BY ONLY PipeQueues DEF Behind, PipeQueues
  <2>4. worker # "none" => opt.depth = 1
    BY ONLY PipePlaces DEF PipePlaces
  <2> HIDE DEF Behind, Done, Past, slot, slotVars, outVars
  <2> QED
    BY ONLY <2>1, <2>2, <2>3, <2>4, WorkerSlots DEF WorkerSlots, Filling
<1>4. CASE HandOff
  <2>1. CASE opt.depth = 0
    BY <1>4, <2>1 DEF HandOff
  <2>2. CASE opt.depth # 0
    <3>1. /\ pc = "handoff" /\ pc' = "check" /\ frame' = frame + 1
          /\ worker' = Notify(worker) /\ UNCHANGED <<drain, workerError, surface, stamp, outVars>>
          /\ pending' = Append(pending, slot) /\ inUse' = [inUse EXCEPT ![slot] = TRUE]
      BY <1>4, <2>2, Zenon DEF HandOff, endVars
    <3>2. /\ Len(pending') = Len(pending) + 1 /\ pending'[Len(pending')] = slot
          /\ Len(pending) > 0 => pending'[1] = pending[1]
      BY ONLY <3>1, PipeQueues, slot \in 0..1 DEF PipeQueues, Slots
    <3>3. inUse'[slot] = TRUE /\ inUse'[1 - slot] = inUse[1 - slot]
      BY ONLY <3>1, PipeArrays, slot \in 0..1 /\ 1 - slot \in 0..1 /\ 1 - slot # slot DEF PipeArrays, Slots
    <3>4. slot' = 1 - slot /\ 1 - slot' = slot
      BY ONLY <3>1, PipeScalars DEF slot, PipeScalars
    <3>5. Behind' = Behind + 1 /\ Done' = Done /\ (Past' <=> Past) /\ Behind \in Nat /\ Len(pending) \in Nat
      BY ONLY <3>1, <3>2, PipeQueues DEF Behind, Done, Past, PipeQueues, outVars
    <3>6. Behind > 0 <=> (drain # <<>> \/ Len(pending) > 0)
      BY ONLY <3>5 DEF Behind
    <3>7. surface[slot] = frame + 1 /\ stamp[slot] = frame + 1
      BY ONLY <3>1, MainSlots DEF MainSlots, frameId
    <3> HIDE DEF Behind, Done, Past, slot, frameId
    <3> SUFFICES ASSUME worker' # "none", ~workerError' PROVE WorkerSlots'
      BY DEF WorkerSlots
    <3>8. worker # "none" /\ ~workerError
      BY ONLY <3>1, <2>2, PipePlaces, ParsedFacts, ~workerError', PipeScalars DEF PipePlaces, PipeScalars
    <3>9. Behind <= 1 /\ Behind <= frame /\ (inUse[1 - slot] <=> Behind > 0)
          /\ (Behind > 0 => surface[1 - slot] = frame /\ stamp[1 - slot] = frame)
          /\ (drain # <<>> => drain[1] = IF Behind = 1 THEN 1 - slot ELSE slot)
          /\ (Len(pending) > 0 => pending[Len(pending)] = 1 - slot)
          /\ Done = frame - Behind + (IF Past THEN 1 ELSE 0)
      BY ONLY <3>1, <3>8, WorkerSlots DEF WorkerSlots, Filling
    <3>10. /\ Behind' <= 2 /\ Behind' <= frame'
           /\ Done' = frame' - Behind' + (IF Past' THEN 1 ELSE 0)
           /\ pc' \in Filling => Behind' <= 1
      BY ONLY <3>1, <3>5, <3>9, PipeScalars DEF Filling, PipeScalars
    <3>11. /\ inUse'[1 - slot'] <=> Behind' > 0
           /\ inUse'[slot'] <=> Behind' > 1
      BY ONLY <3>3, <3>4, <3>5, <3>9
    <3>12. /\ Behind' > 0 => surface'[1 - slot'] = frame' /\ stamp'[1 - slot'] = frame'
           /\ Behind' > 1 => surface'[slot'] = frame' - 1 /\ stamp'[slot'] = frame' - 1
      BY ONLY <3>1, <3>4, <3>5, <3>7, <3>9, PipeScalars DEF PipeScalars
    <3>13. drain' # <<>> => drain'[1] = IF Behind' = 1 THEN 1 - slot' ELSE slot'
      BY ONLY <3>1, <3>4, <3>5, <3>6, <3>9
    <3>14. /\ Len(pending') > 0 => pending'[Len(pending')] = 1 - slot'
           /\ Len(pending') > 1 => pending'[1] = slot'
      <4>1. Len(pending) <= 1 /\ Len(pending) \in Nat
        BY ONLY <3>5, <3>9 DEF Behind
      <4> QED
        BY ONLY <3>2, <3>4, <3>9, <4>1
    <3> QED
      BY ONLY <3>10, <3>11, <3>12, <3>13, <3>14 DEF WorkerSlots
  <2> QED
    BY <2>1, <2>2
<1>5. CASE FinishInput
  BY <1>5 DEF FinishInput, Notify
<1>6. CASE Join
  BY <1>6 DEF Join, Throw
<1>7. CASE Catch
  BY <1>7 DEF Catch, Notify
<1>8. CASE CatchJoin
  BY <1>8 DEF CatchJoin
<1>9. CASE Unwind
  BY <1>9 DEF Unwind
<1>10. ASSUME NEW ok \in BOOLEAN, Acquire(ok) PROVE WorkerSlots'
  BY <1>10 DEF Acquire
<1>11. ASSUME NEW ok \in BOOLEAN, Invalidate(ok) PROVE WorkerSlots'
  BY <1>11 DEF Invalidate, Throw
<1>12. ASSUME NEW ok \in BOOLEAN, Grab(ok) PROVE WorkerSlots'
  BY <1>12 DEF Grab, Throw
<1>13. ASSUME NEW ok \in BOOLEAN, Convert(ok) PROVE WorkerSlots'
  <2>1. CASE ~ok
    BY <1>13, <2>1 DEF Convert, Throw
  <2>2. CASE ok
    <3>1. /\ pc = "convert" /\ surface' = [surface EXCEPT ![slot] = frameId]
          /\ UNCHANGED <<frame, drain, worker, workerError, inUse, stamp, pending, outVars>>
      BY <1>13, <2>2, Zenon DEF Convert, endVars
    <3>2. surface'[1 - slot] = surface[1 - slot]
      BY ONLY <3>1, PipeArrays, slot \in 0..1 /\ 1 - slot \in 0..1 /\ 1 - slot # slot DEF PipeArrays, Slots
    <3>3. UNCHANGED <<Behind, Done, slot>> /\ (Past' <=> Past) /\ Behind \in Nat
      BY ONLY <3>1, PipeQueues DEF Behind, Done, Past, slot, outVars, PipeQueues
    <3> HIDE DEF Behind, Done, Past, slot
    <3> QED
      BY ONLY <3>1, <3>2, <3>3, WorkerSlots DEF WorkerSlots, Filling
  <2> QED
    BY <2>1, <2>2
<1>14. ASSUME NEW ok \in BOOLEAN, Map(ok) PROVE WorkerSlots'
  BY <1>14 DEF Map, Throw
<1>15. ASSUME NEW ok \in BOOLEAN, Submit(ok) PROVE WorkerSlots'
  <2>1. CASE ~ok
    BY <1>15, <2>1 DEF Submit, Throw
  <2>2. CASE ok
    <3>1. /\ pc = "submit" /\ stamp' = [stamp EXCEPT ![slot] = frameId]
          /\ UNCHANGED <<frame, drain, worker, workerError, inUse, surface, pending, written,
                         dropped>>
      BY <1>15, <2>2, Zenon DEF Submit, endVars
    <3>2. stamp'[1 - slot] = stamp[1 - slot]
      BY ONLY <3>1, PipeArrays, slot \in 0..1 /\ 1 - slot \in 0..1 /\ 1 - slot # slot DEF PipeArrays, Slots
    <3>3. UNCHANGED <<Behind, Done, slot>> /\ (Past' <=> Past) /\ Behind \in Nat
      BY ONLY <3>1, PipeQueues DEF Behind, Done, Past, slot, PipeQueues
    <3> HIDE DEF Behind, Done, Past, slot
    <3> QED
      BY ONLY <3>1, <3>2, <3>3, WorkerSlots DEF WorkerSlots, Filling
  <2> QED
    BY <2>1, <2>2
<1>16. ASSUME NEW ok \in BOOLEAN, DrainLock(ok) PROVE WorkerSlots'
  <2>1. /\ UNCHANGED <<frame, slotVars, outVars>>
        /\ \/ DrainFails
           \/ /\ drain[2] = "lock" /\ drain' = <<drain[1], "write">> /\ drain # <<>>
              /\ UNCHANGED <<pc, worker, workerError>>
    BY <1>16, Zenon DEF DrainLock, endVars
  <2>2. CASE DrainFails
    BY <2>2, DrainFailsSlots
  <2>3. CASE /\ drain[2] = "lock" /\ drain' = <<drain[1], "write">> /\ drain # <<>>
             /\ UNCHANGED <<pc, worker, workerError>>
    <3>1. drain' # <<>> /\ drain'[1] = drain[1] /\ drain'[2] = "write"
      BY ONLY <2>3
    <3>2. UNCHANGED <<Behind, Done, slot, inUse, surface, stamp, pending>> /\ ~Past /\ ~Past'
      BY ONLY <2>1, <2>3, <3>1 DEF Behind, Done, Past, slot, slotVars, outVars
    <3> HIDE DEF Behind, Done, Past, slot
    <3> QED
      BY ONLY <2>1, <2>3, <3>1, <3>2, WorkerSlots DEF WorkerSlots
  <2> QED
    BY <2>1, <2>2, <2>3
<1>17. ASSUME NEW ok \in BOOLEAN, DrainWrite(ok) PROVE WorkerSlots'
  <2>1. /\ UNCHANGED <<frame, slotVars>> /\ drain # <<>> /\ drain[2] = "write"
        /\ \/ DrainFails
           \/ /\ drain' = <<drain[1], "unlock">> /\ UNCHANGED <<pc, worker, workerError>>
              /\ \/ dropped' = dropped + 1 /\ written' = written
                 \/ dropped' = dropped /\ written' = Append(written, surface[drain[1]])
    BY <1>17, Zenon DEF DrainWrite, endVars
  <2>2. CASE DrainFails
    BY <2>2, DrainFailsSlots
  <2>3. CASE /\ drain' = <<drain[1], "unlock">> /\ UNCHANGED <<pc, worker, workerError>>
             /\ \/ dropped' = dropped + 1 /\ written' = written
                \/ dropped' = dropped /\ written' = Append(written, surface[drain[1]])
    <3>1. drain' # <<>> /\ drain'[1] = drain[1] /\ drain'[2] = "unlock"
      BY ONLY <2>3
    <3>2. UNCHANGED <<Behind, slot, inUse, surface, stamp, pending>> /\ ~Past /\ Past'
      BY ONLY <2>1, <2>3, <3>1 DEF Behind, Past, slot, slotVars
    <3>3. Done' = Done + 1 /\ Done \in Nat /\ Behind \in Nat
      <4>1. Len(pending) \in Nat /\ Len(written) \in Nat /\ dropped \in Nat
        BY ONLY PipeScalars, PipeQueues DEF PipeScalars, PipeQueues
      <4>2. Len(Append(written, surface[drain[1]])) = Len(written) + 1
        BY ONLY PipeQueues DEF PipeQueues
      <4> QED
        BY ONLY <2>3, <4>1, <4>2 DEF Done, Behind
    <3> HIDE DEF Behind, Done, Past, slot
    <3> QED
      BY ONLY <2>1, <2>3, <3>1, <3>2, <3>3, WorkerSlots, PipeScalars DEF WorkerSlots, PipeScalars
  <2> QED
    BY <2>1, <2>2, <2>3
<1>18. ASSUME NEW ok \in BOOLEAN, DrainRelease(ok) PROVE WorkerSlots'
  <2>1. /\ UNCHANGED <<slotVars, outVars>> /\ drain # <<>> /\ drain[2] \in {"unlock", "unmap"}
        /\ \/ DrainFails
           \/ /\ drain' = <<drain[1], "unmap">> \/ drain' = <<drain[1], "done">>
              /\ UNCHANGED <<pc, workerError, frame>>
              /\ worker' = "none" => worker = "none"
              /\ worker = "none" => worker' = "none" \/ opt.depth = 1
           \/ opt.depth # 1 /\ worker' = worker
    BY <1>18, Zenon DEF DrainRelease, endVars
  <2>2. CASE DrainFails
    BY <2>2, DrainFailsSlots
  <2>3. CASE opt.depth # 1 /\ worker' = worker
    BY ONLY <2>3, PipePlaces DEF PipePlaces, WorkerSlots
  <2>4. CASE /\ drain' = <<drain[1], "unmap">> \/ drain' = <<drain[1], "done">>
             /\ UNCHANGED <<pc, workerError, frame>>
             /\ worker' = "none" => worker = "none"
             /\ worker = "none" => worker' = "none" \/ opt.depth = 1
    <3>1. drain' # <<>> /\ drain'[1] = drain[1] /\ drain'[2] \in {"unmap", "done"}
      BY ONLY <2>4
    <3>2. UNCHANGED <<Behind, Done, slot, inUse, surface, stamp, pending>> /\ Past /\ Past'
      BY ONLY <2>1, <2>4, <3>1 DEF Behind, Done, Past, slot, slotVars, outVars
    <3>3. worker' # "none" => worker # "none"
      <4>1. worker = "none" => pc = "drain" /\ opt.depth # 1
        BY ONLY <2>1, PipePlaces, ParsedFacts DEF PipePlaces
      <4> QED
        BY ONLY <2>4, <4>1
    <3> HIDE DEF Behind, Done, Past, slot
    <3> QED
      BY ONLY <2>1, <2>4, <3>1, <3>2, <3>3, WorkerSlots DEF WorkerSlots
  <2> QED
    BY <2>1, <2>2, <2>3, <2>4
<1>19. ASSUME NEW ok \in BOOLEAN, NEW realtime \in BOOLEAN, NEW robust \in BOOLEAN,
             Gates(ok, realtime, robust)
      PROVE  WorkerSlots'
  BY <1>19 DEF Gates
<1>20. CASE WorkerTake
  <2>1. CASE pending = <<>>
    BY <1>20, <2>1 DEF WorkerTake
  <2>2. CASE pending # <<>>
    <3>1. /\ worker = "check" /\ drain' = <<Head(pending), "lock">> /\ pending' = Tail(pending)
          /\ worker' = "drain" /\ UNCHANGED <<pc, frame, workerError, inUse, surface, stamp, outVars>>
      BY <1>20, <2>2, Zenon DEF WorkerTake, progVars, endVars
    <3>2. drain = <<>>
      BY ONLY <3>1, PipePlaces DEF PipePlaces
    <3>3. drain' # <<>> /\ drain'[1] = pending[1] /\ drain'[2] = "lock"
      BY ONLY <3>1, <2>2, PipeQueues DEF PipeQueues
    <3>4. /\ Len(pending) \in Nat /\ Len(pending) > 0 /\ Len(pending') = Len(pending) - 1
          /\ Len(pending') > 0 => pending'[Len(pending')] = pending[Len(pending)]
      BY ONLY <3>1, <2>2, PipeQueues DEF PipeQueues
    <3>5. /\ Behind = Len(pending) /\ Behind' = Len(pending) /\ Done' = Done /\ slot' = slot /\ ~Past /\ ~Past'
      BY ONLY <3>1, <3>2, <3>3, <3>4 DEF Behind, Done, Past, slot, outVars
    <3> HIDE DEF Behind, Done, Past, slot
    <3> QED
      BY ONLY <3>1, <3>2, <3>3, <3>4, <3>5, WorkerSlots DEF WorkerSlots
  <2> QED
    BY <2>1, <2>2
<1>21. CASE WorkerRelease
  <2>1. /\ worker = "release" /\ worker' = "notify" /\ inUse' = [inUse EXCEPT ![drain[1]] = FALSE]
        /\ drain' = <<>> /\ UNCHANGED <<pc, frame, workerError, surface, stamp, pending, outVars>>
    BY <1>21, Zenon DEF WorkerRelease, progVars, endVars
  <2>2. drain # <<>> /\ drain[2] = "done" /\ drain[1] \in 0..1
    BY ONLY <2>1, PipePlaces, PipeDrain DEF PipePlaces, PipeDrain, Slots
  <2>3. \A s \in 0..1 : inUse'[s] = IF s = drain[1] THEN FALSE ELSE inUse[s]
    BY ONLY <2>1, <2>2, PipeArrays DEF PipeArrays, Slots
  <2>4. /\ Behind = Len(pending) + 1 /\ Behind' = Len(pending) /\ Len(pending) \in Nat
        /\ Done' = Done /\ slot' = slot /\ Past /\ ~Past'
    BY ONLY <2>1, <2>2, PipeQueues DEF Behind, Done, Past, slot, outVars, PipeQueues
  <2>5. slot \in 0..1 /\ 1 - slot \in 0..1 /\ 1 - slot # slot
    OBVIOUS
  <2> HIDE DEF Behind, Done, Past, slot
  <2>6. CASE worker # "none" /\ ~workerError /\ drain[1] = 1 - slot
    <3>1. inUse'[1 - slot] = FALSE /\ inUse'[slot] = inUse[slot]
      BY ONLY <2>3, <2>5, <2>6
    <3> QED
      BY ONLY <2>1, <2>2, <2>4, <2>5, <2>6, <3>1, WorkerSlots, PipeScalars DEF WorkerSlots, PipeScalars
  <2>7. CASE worker # "none" /\ ~workerError /\ drain[1] = slot
    <3>1. inUse'[slot] = FALSE /\ inUse'[1 - slot] = inUse[1 - slot]
      BY ONLY <2>3, <2>5, <2>7
    <3> QED
      BY ONLY <2>1, <2>2, <2>4, <2>5, <2>7, <3>1, WorkerSlots, PipeScalars DEF WorkerSlots, PipeScalars
  <2> QED
    BY ONLY <2>1, <2>2, <2>5, <2>6, <2>7, WorkerSlots DEF WorkerSlots
<1>22. CASE WorkerNotify
  BY <1>22 DEF WorkerNotify, Notify
<1>23. CASE UNCHANGED pipelineVars
  BY <1>23 DEF pipelineVars
<1> QED
  BY <1>1, <1>2, <1>3, <1>4, <1>5, <1>6, <1>7, <1>8, <1>9, <1>10, <1>11, <1>12,
     <1>13, <1>14, <1>15, <1>16, <1>17, <1>18, <1>19, <1>20, <1>21, <1>22, <1>23
    DEF PipelineNext, MainStep, DrainStep, WorkerStep

\* The picture a drain is about to write is the next one, and stamped so.
LEMMA DrainedFrame ==
    ASSUME PipeScalars, PipeFlags, PipeQueues, PipeDrain, PipePlaces, WorkerSlots, MainSlots,
           drain # <<>>, drain[2] = "write"
    PROVE  surface[drain[1]] = Done + 1 /\ stamp[drain[1]] = Done + 1 /\ Done \in Nat
<1>1. ~Past
  BY DEF Past
<1>2. Done \in Nat /\ Behind \in Nat /\ (Behind = 1 \/ Behind > 1)
  BY DEF Done, Behind, PipeScalars, PipeQueues
<1>3. CASE worker = "none"
  BY ONLY <1>1, <1>2, <1>3, PipePlaces, MainSlots, drain # <<>>, PipeScalars
    DEF PipePlaces, MainSlots, frameId, PipeScalars
<1>4. CASE worker # "none"
  <2>1. ~workerError
    BY ONLY <1>4, drain # <<>>, PipePlaces, PipeFlags DEF PipePlaces, PipeFlags
  <2> QED
    BY ONLY <1>1, <1>2, <1>4, <2>1, WorkerSlots, drain # <<>>, PipeScalars DEF WorkerSlots, PipeScalars
<1> QED
  BY <1>3, <1>4

\* The next frame is appended to those kept, unless it is the lost one.
LEMMA KeptNext ==
    ASSUME NEW n \in Nat, opt.loss \in Nat
    PROVE  /\ opt.loss = n + 1 => Kept(n + 1) = Kept(n)
           /\ opt.loss # n + 1 => Kept(n + 1) = Append(Kept(n), n + 1)
<1>1. CASE opt.loss = n + 1
  BY <1>1 DEF Kept
<1>2. CASE opt.loss \in 1..n
  <2>1. Kept(n) = [i \in 1..n - 1 |-> IF i < opt.loss THEN i ELSE i + 1]
    BY <1>2 DEF Kept
  <2>2. Kept(n + 1) = [i \in 1..n |-> IF i < opt.loss THEN i ELSE i + 1]
    BY <1>2 DEF Kept
  <2> QED
    BY ONLY <1>2, <2>1, <2>2, n \in Nat, opt.loss \in Nat
<1>3. CASE opt.loss # n + 1 /\ opt.loss \notin 1..n
  <2>1. Kept(n) = [i \in 1..n |-> i]
    BY <1>3 DEF Kept
  <2>2. Kept(n + 1) = [i \in 1..n + 1 |-> i]
    BY <1>3 DEF Kept
  <2> QED
    BY ONLY <1>3, <2>1, <2>2, n \in Nat
<1> QED
  BY <1>1, <1>2, <1>3

\* A step that takes no output, and that does not set the exit code to 0.
Elsewhere ==
    /\ UNCHANGED <<written, reference, dropped, invalidated>>
    /\ code' = 2 \/ code' = 3 \/ (code' = code /\ (pc \in {"unwind", "exit"} => pc' \in {"unwind", "exit"}))
LEMMA FilesStay ==
    ASSUME PipeFiles, opt' = opt, Elsewhere
    PROVE  PipeFiles'
<1>1. Done' = Done /\ Kept(Done)' = Kept(Done)
  BY ParsedKept DEF Done, Elsewhere
<1> QED
  BY ONLY <1>1, PipeFiles, opt' = opt, Elsewhere DEF PipeFiles, Elsewhere

\* The files grow by the next frame only.
LEMMA PipeFilesNext ==
    ASSUME PipeScalars, PipeFlags, PipeQueues, PipeDrain, PipePlaces, WorkerSlots, MainSlots, PipeFiles, [PipelineNext]_pipelineVars
    PROVE  PipeFiles'
<1> USE OptionsStay
<1>0. opt' = opt
  OBVIOUS
<1>1. CASE ParseOptions
  BY <1>1, FilesStay, Zenon DEF ParseOptions, outVars, endVars, progVars, Elsewhere, PipePlaces
<1>2. CASE StartLoop
  BY <1>2, FilesStay, Zenon DEF StartLoop, outVars, endVars, progVars, Elsewhere, PipePlaces
<1>3. CASE WaitForSlot
  BY <1>3, FilesStay, Zenon DEF WaitForSlot, Throw, outVars, endVars, progVars, Elsewhere, PipePlaces
<1>4. CASE HandOff
  BY <1>4, FilesStay, Zenon DEF HandOff, Notify, outVars, endVars, progVars, Elsewhere, PipePlaces
<1>5. CASE FinishInput
  BY <1>5, FilesStay, Zenon DEF FinishInput, Notify, outVars, endVars, progVars, Elsewhere, PipePlaces
<1>6. CASE Join
  BY <1>6, FilesStay, Zenon DEF Join, Throw, outVars, endVars, progVars, Elsewhere, PipePlaces
<1>7. CASE Catch
  BY <1>7, FilesStay, Zenon DEF Catch, Notify, outVars, endVars, progVars, Elsewhere, PipePlaces
<1>8. CASE CatchJoin
  BY <1>8, FilesStay, Zenon DEF CatchJoin, outVars, endVars, progVars, Elsewhere, PipePlaces
<1>9. CASE Unwind
  BY <1>9, FilesStay, Zenon DEF Unwind, outVars, endVars, progVars, Elsewhere, PipePlaces
<1>10. ASSUME NEW ok \in BOOLEAN, Acquire(ok) PROVE PipeFiles'
  BY <1>10, FilesStay, Zenon DEF Acquire, outVars, endVars, progVars, Elsewhere, PipePlaces
<1>11. ASSUME NEW ok \in BOOLEAN, Invalidate(ok) PROVE PipeFiles'
  <2>1. /\ pc = "grab" /\ InvalidationDue /\ UNCHANGED <<written, reference, dropped>>
        /\ (pc' = pc /\ code' = code) \/ (pc' = "catch" /\ code' = 3)
    BY <1>11, Zenon DEF Invalidate, Throw
  <2>2. Parsed /\ (opt.depth = 1 => worker # "none") /\ (worker = "none" => ~Past) /\ code # 0
    BY <2>1, Zenon DEF PipePlaces, PipeFiles, Past
  <2>3. opt.loss \in 1..Done
    <3>1. Done \in Nat
      BY DEF Done, PipeScalars, PipeQueues
    <3>2. CASE worker = "none"
      <4>1. Done = frame
        BY <2>1, <2>2, <3>2 DEF MainSlots, PipeScalars
      <4> QED
        BY ONLY <2>1, <2>2, <3>1, <4>1, ParsedFacts, PipeScalars DEF InvalidationDue, frameId, PipeScalars
    <3>3. CASE worker # "none"
      <4>1. opt.depth = 1 /\ Done >= frame - 1
        BY <2>1, <3>3 DEF MainSlots, PipePlaces, Filling
      <4> QED
        BY ONLY <2>1, <2>2, <3>1, <4>1, ParsedFacts, PipeScalars DEF InvalidationDue, frameId, PipeScalars
    <3> QED
      BY <3>2, <3>3
  <2>4. Done' = Done /\ Kept(Done)' = Kept(Done)
    BY <2>1, ParsedKept DEF Done
  <2> QED
    <3>1. code' # 0
      BY ONLY <2>1, <2>2
    <3> QED
      BY ONLY <2>1, <2>3, <2>4, <3>1, <1>0, PipeFiles, Zenon DEF PipeFiles
<1>12. ASSUME NEW ok \in BOOLEAN, Grab(ok) PROVE PipeFiles'
  BY <1>12, FilesStay, Zenon DEF Grab, Throw, outVars, endVars, progVars, Elsewhere, PipePlaces
<1>13. ASSUME NEW ok \in BOOLEAN, Convert(ok) PROVE PipeFiles'
  BY <1>13, FilesStay, Zenon DEF Convert, Throw, outVars, endVars, progVars, Elsewhere, PipePlaces
<1>14. ASSUME NEW ok \in BOOLEAN, Map(ok) PROVE PipeFiles'
  BY <1>14, FilesStay, Zenon DEF Map, Throw, outVars, endVars, progVars, Elsewhere, PipePlaces
<1>15. ASSUME NEW ok \in BOOLEAN, Submit(ok) PROVE PipeFiles'
  BY <1>15, FilesStay, Zenon DEF Submit, Throw, outVars, endVars, progVars, Elsewhere, PipePlaces
<1>16. ASSUME NEW ok \in BOOLEAN, DrainLock(ok) PROVE PipeFiles'
  BY <1>16, FilesStay, Zenon DEF DrainLock, DrainFails, Throw, Notify, outVars, endVars, progVars, Elsewhere, PipePlaces
<1>17. ASSUME NEW ok \in BOOLEAN, DrainWrite(ok) PROVE PipeFiles'
  <2>1. drain # <<>> /\ drain[2] = "write" /\ UNCHANGED invalidated
    BY <1>17, Zenon DEF DrainWrite
  <2>2. Parsed /\ code # 0
    BY <2>1, Zenon DEF PipePlaces, PipeFiles
  <2>3. surface[drain[1]] = Done + 1 /\ stamp[drain[1]] = Done + 1 /\ Done \in Nat
    BY <2>1, DrainedFrame
  <2>4. CASE DrainFails /\ UNCHANGED <<written, reference, dropped>>
    <3>1. code' # 0
      <4>1. code' = code \/ code' = 3
        BY <2>4, Zenon DEF DrainFails, Throw
      <4> QED
        BY ONLY <2>2, <4>1
    <3>2. Done' = Done /\ Kept(Done)' = Kept(Done)
      BY <2>4, ParsedKept DEF Done
    <3> QED
      BY ONLY <2>1, <2>4, <3>1, <3>2, <1>0, PipeFiles, Zenon DEF PipeFiles
  <2>5. CASE /\ dropped' = IF opt.loss # 0 /\ stamp[drain[1]] = opt.loss THEN dropped + 1 ELSE dropped
             /\ written' = IF opt.loss # 0 /\ stamp[drain[1]] = opt.loss THEN written
                           ELSE Append(written, surface[drain[1]])
             /\ reference' = IF opt.reference = "none" THEN reference
                             ELSE Append(reference, surface[drain[1]])
             /\ code' = code
    <3>1. opt.loss \in Nat
      BY <2>2, ParsedFacts
    <3>2. \A n : Kept(n)' = Kept(n)
      BY OptionsStay, ParsedKept
    <3>3. Kept(Done + 1) = IF opt.loss = Done + 1 THEN Kept(Done) ELSE Append(Kept(Done), Done + 1)
      BY <2>3, <3>1, KeptNext
    <3>4. written' = Kept(Done + 1)
      BY ONLY <2>3, <2>5, <3>1, <3>3, PipeFiles DEF PipeFiles
    <3>5. Done' = Done + 1
      BY ONLY <2>3, <2>5, <3>1, PipeQueues, PipeScalars DEF Done, PipeQueues, PipeScalars
    <3>6. dropped' = IF opt.loss \in 1..Done + 1 THEN 1 ELSE 0
      BY ONLY <2>3, <2>5, <3>1, PipeFiles DEF PipeFiles
    <3>7. reference' = IF opt.reference = "none" THEN <<>> ELSE [i \in 1..Done + 1 |-> i]
      <4>1. Append([i \in 1..Done |-> i], Done + 1) = [i \in 1..Done + 1 |-> i]
        BY ONLY <2>3
      <4> QED
        BY ONLY <2>3, <2>5, <4>1, PipeFiles, Zenon DEF PipeFiles
    <3>8. invalidated' => opt.loss \in 1..Done + 1
      BY ONLY <2>1, <2>3, <3>1, PipeFiles DEF PipeFiles
    <3> HIDE DEF Done
    <3> QED
      BY ONLY <2>2, <2>5, <3>2, <3>4, <3>5, <3>6, <3>7, <3>8, <1>0, Zenon DEF PipeFiles
  <2> QED
    BY <1>17, <2>4, <2>5, Zenon DEF DrainWrite
<1>18. ASSUME NEW ok \in BOOLEAN, DrainRelease(ok) PROVE PipeFiles'
  BY <1>18, FilesStay, Zenon DEF DrainRelease, DrainFails, Throw, Notify, outVars, endVars, progVars, Elsewhere, PipePlaces
<1>19. ASSUME NEW ok \in BOOLEAN, NEW realtime \in BOOLEAN, NEW robust \in BOOLEAN,
             Gates(ok, realtime, robust)
      PROVE  PipeFiles'
  <2>1. pc = "eos" /\ pc' = "unwind" /\ UNCHANGED <<written, reference, dropped, invalidated>>
    BY <1>19, Zenon DEF Gates, outVars
  <2>2. worker \in {"none", "joined"} /\ frame = opt.frames /\ pending = <<>> /\ drain = <<>> /\ ~workerError
    BY <2>1, Zenon DEF PipePlaces
  <2>3. ~Past /\ Behind = 0
    BY <2>2 DEF Past, Behind
  <2>4. Done = opt.frames
    <3>1. CASE worker = "none"
      BY <2>1, <2>2, <2>3, <3>1 DEF MainSlots, PipeScalars
    <3>2. CASE worker # "none"
      BY <2>2, <2>3, <3>2 DEF WorkerSlots, PipeScalars
    <3> QED
      BY <3>1, <3>2
  <2>5. Done' = Done /\ Kept(Done)' = Kept(Done)
    BY <2>1, ParsedKept DEF Done
  <2> QED
    BY ONLY <2>1, <2>4, <2>5, <1>0, PipeFiles, Zenon DEF PipeFiles
<1>20. CASE WorkerTake
  BY <1>20, FilesStay, Zenon DEF WorkerTake, outVars, endVars, progVars, Elsewhere, PipePlaces
<1>21. CASE WorkerRelease
  BY <1>21, FilesStay, Zenon DEF WorkerRelease, outVars, endVars, progVars, Elsewhere, PipePlaces
<1>22. CASE WorkerNotify
  BY <1>22, FilesStay, Zenon DEF WorkerNotify, Notify, outVars, endVars, progVars, Elsewhere, PipePlaces
<1>23. CASE UNCHANGED pipelineVars
  BY <1>23, FilesStay, Zenon DEF pipelineVars, outVars, progVars, Elsewhere
<1> QED
  BY <1>1, <1>2, <1>3, <1>4, <1>5, <1>6, <1>7, <1>8, <1>9, <1>10, <1>11, <1>12,
     <1>13, <1>14, <1>15, <1>16, <1>17, <1>18, <1>19, <1>20, <1>21, <1>22, <1>23
    DEF PipelineNext, MainStep, DrainStep, WorkerStep

\* The pairs that name a slot's objects differ from the others.
LEMMA SlotPairs ==
    ASSUME NEW s \in Slots
    PROVE  /\ Needs(<<"mapped", s>>) = {<<"registered", s>>}
           /\ Needs(<<"locked", s>>) = {<<"bitstream", s>>, <<"mapped", s>>}
BY DEF Needs

\* The self test's source is made from nothing that ~Resources knows, and is none of it.
LEMMA SourceApart ==
    /\ Needs(TestSource) = {} /\ TestSource # SelfTest
    /\ TestSource \notin Objects
    /\ \A s : TestSource # <<"mapped", s>> /\ TestSource # <<"locked", s>>
    /\ \A i \in 1..17 : SetupSteps[i] # TestSource
<1>1. Needs(TestSource) = {}
  BY DEF Needs, TestSource
<1>2. \A i \in 1..20 : ReleaseOrder[i] # TestSource
  BY ReleaseOrderIs, SMTT(30) DEF TestSource
<1>3. TestSource # SelfTest /\ \A s : TestSource # <<"mapped", s>> /\ TestSource # <<"locked", s>>
  BY DEF TestSource, SelfTest
<1>4. \A i \in 1..17 : SetupSteps[i] # TestSource
  BY SetupStepsAre, SMTT(30) DEF TestSource
<1> QED
  BY <1>1, <1>2, <1>3, <1>4, ReleaseOrderIs, Zenon DEF Objects

\* Who needs a slot's mapping, and who needs its lock.
LEMMA SlotNeeded ==
    ASSUME NEW s \in Slots, NEW r \in Objects \cup {TestSource}
    PROVE  /\ <<"mapped", s>> \in Needs(r) => r = <<"locked", s>>
           /\ <<"locked", s>> \notin Needs(r)
<1>0. SUFFICES ASSUME r \in Objects
               PROVE  /\ <<"mapped", s>> \in Needs(r) => r = <<"locked", s>>
                      /\ <<"locked", s>> \notin Needs(r)
  BY SourceApart, Zenon
<1>1. PICK i \in 1..20 : r = ReleaseOrder[i]
  BY <1>0, ReleaseOrderIs DEF Objects
<1>2. CASE i \in {1, 11, 14, 20}
  BY <1>1, <1>2, ReleaseOrderIs, SMTT(30) DEF Needs
<1>3. CASE i \in 2..5
  BY <1>1, <1>3, ReleaseOrderIs, SMTT(30) DEF Needs
<1>4. CASE i \in 6..9
  BY <1>1, <1>4, ReleaseOrderIs, SMTT(30) DEF Needs
<1>5. CASE i \in {10, 12, 13}
  BY <1>1, <1>5, ReleaseOrderIs, SMTT(30) DEF Needs
<1>6. CASE i \in 15..19
  BY <1>1, <1>6, ReleaseOrderIs, SMTT(30) DEF Needs
<1> QED
  BY <1>2, <1>3, <1>4, <1>5, <1>6

\* After the set-up every slot has its registration and its bitstream.
LEMMA MadeSlots ==
    ASSUME PipeScalars, PipePlaces, HeldSetup, pc \notin {"options", "setup", "unwind", "exit"}, NEW s \in Slots
    PROVE  <<"registered", s>> \in held /\ <<"bitstream", s>> \in held
<1>1. \A i \in 1..17 : SetupSteps[i] \in held \cup {<<"selftest", 0>>}
  BY SetupStepsAre, Zenon DEF PipePlaces, HeldSetup
<1>2. CASE s = 0
  BY <1>1, <1>2, SetupStepsAre, SMTT(30)
<1>3. CASE s = 1
  BY <1>1, <1>3, SetupStepsAre, SMTT(30)
<1> QED
  BY <1>2, <1>3 DEF Slots

\* What a set-up call does: a failing one may leave the self test's source.
LEMMA AcquireDoes ==
    ASSUME NEW ok \in BOOLEAN, Acquire(ok)
    PROVE  \/ /\ pc = "setup" /\ setup < Len(SetupSteps)
              /\ pc' = pc /\ code' = code /\ setup' = setup + 1
              /\ SetupSteps[setup + 1] = <<"selftest", 0>> => SelfTestPasses
              /\ held' = held \cup ({SetupSteps[setup + 1]} \ {<<"selftest", 0>>})
           \/ /\ pc = "setup" /\ pc' = "unwind" /\ code' = 3 /\ setup' = setup
              /\ \/ held' = held
                 \/ SetupSteps[setup + 1] = SelfTest /\ held' = held \cup {TestSource}
<1>1. CASE ok
  BY <1>1, Zenon DEF Acquire, SelfTest
<1>2. CASE ~ok
  <2>1. PICK left \in FailureLeaves(SetupSteps[setup + 1]) : held' = held \cup left
    BY <1>2, Zenon DEF Acquire
  <2>2. left = {} \/ (SetupSteps[setup + 1] = SelfTest /\ left = {TestSource})
    BY ONLY <2>1 DEF FailureLeaves
  <2>3. held' = held \/ (SetupSteps[setup + 1] = SelfTest /\ held' = held \cup {TestSource})
    BY ONLY <2>1, <2>2
  <2> QED
    BY <1>2, <2>3, Zenon DEF Acquire
<1> QED
  BY <1>1, <1>2

\* Nothing is made before or released after what it is made from.
LEMMA HeldNestedNext ==
    ASSUME PipeScalars, PipeDrain, PipePlaces, HeldNested, HeldSetup, HeldSlots, [PipelineNext]_pipelineVars
    PROVE  HeldNested'
<1>1. CASE ParseOptions
  BY <1>1, Zenon DEF ParseOptions, HeldNested
<1>2. CASE StartLoop
  BY <1>2, Zenon DEF StartLoop, HeldNested
<1>3. CASE WaitForSlot
  BY <1>3, Zenon DEF WaitForSlot, Throw, HeldNested
<1>4. CASE HandOff
  BY <1>4, Zenon DEF HandOff, Notify, HeldNested
<1>5. CASE FinishInput
  BY <1>5, Zenon DEF FinishInput, Notify, HeldNested
<1>6. CASE Join
  BY <1>6, Zenon DEF Join, Throw, HeldNested
<1>7. CASE Catch
  BY <1>7, Zenon DEF Catch, Notify, HeldNested
<1>8. CASE CatchJoin
  BY <1>8, Zenon DEF CatchJoin, HeldNested
<1>9. CASE Unwind
  <2> DEFINE left == {i \in DOMAIN ReleaseOrder : ReleaseOrder[i] \in held}
  <2>1. CASE left = {}
    BY <1>9, <2>1, Zenon DEF Unwind, HeldNested
  <2>2. CASE left # {}
    <3> DEFINE r == ReleaseOrder[Min(left)]
    <3>1. held' = held \ {r}
      BY <1>9, <2>2, Zenon DEF Unwind
    <3>2. Min(left) \in left /\ \A i \in left : Min(left) <= i
      <4>1. left \subseteq Nat
        BY ReleaseOrderIs
      <4> QED
        BY ONLY <2>2, <4>1, MinLeast, Zenon
    <3>3. ASSUME NEW q \in held, r \in Needs(q) PROVE FALSE
      <4>0. q \in Objects
        BY <3>3, SourceApart, Zenon DEF HeldNested
      <4>1. PICK j \in DOMAIN ReleaseOrder : q = ReleaseOrder[j]
        BY <4>0 DEF Objects
      <4>2. Min(left) \in DOMAIN ReleaseOrder /\ j \in left
        BY <3>2, <4>1
      <4>3. j < Min(left)
        BY ONLY <3>3, <4>1, <4>2, ReleaseNests
      <4>4. Min(left) <= j /\ Min(left) \in 1..20 /\ j \in 1..20
        BY ONLY <3>2, <4>2, ReleaseOrderIs
      <4> QED
        BY ONLY <4>3, <4>4
    <3> HIDE DEF r, left
    <3> QED
      BY ONLY <3>1, <3>3, HeldNested, Zenon DEF HeldNested
  <2> QED
    BY <2>1, <2>2
<1>10. ASSUME NEW ok \in BOOLEAN, Acquire(ok) PROVE HeldNested'
  <2>1. CASE held' = held \/ held' = held \cup {TestSource}
    BY <2>1, SourceApart, Zenon DEF HeldNested
  <2>2. CASE /\ pc = "setup" /\ setup < Len(SetupSteps)
             /\ held' = held \cup ({SetupSteps[setup + 1]} \ {<<"selftest", 0>>})
    <3>1. setup + 1 \in 1..Len(SetupSteps)
      BY <2>2, SetupStepsAre DEF PipeScalars
    <3>2. SetupSteps[setup + 1] \in Objects \cup {<<"selftest", 0>>}
      BY <3>1, ObjectsAre
    <3>3. ASSUME NEW r \in Needs(SetupSteps[setup + 1]) PROVE r \in held
      <4> DEFINE i == setup + 1
      <4>0. i \in 1..Len(SetupSteps) /\ r \in Needs(SetupSteps[i])
        BY <3>1, <3>3
      <4> HIDE DEF i
      <4>1. PICK j \in 1..i - 1 : SetupSteps[j] = r /\ r # <<"selftest", 0>>
        BY ONLY <4>0, SetupNeeds, Zenon
      <4>2. j \in 1..setup
        BY ONLY <4>1, PipeScalars DEF PipeScalars, i
      <4> QED
        BY <2>2, <4>1, <4>2, Zenon DEF HeldSetup
    <3> QED
      BY ONLY <2>2, <3>2, <3>3, HeldNested, Zenon DEF HeldNested
  <2> QED
    BY ONLY <1>10, <2>1, <2>2, AcquireDoes, Zenon
<1>11. ASSUME NEW ok \in BOOLEAN, Invalidate(ok) PROVE HeldNested'
  BY <1>11, Zenon DEF Invalidate, Throw, HeldNested
<1>12. ASSUME NEW ok \in BOOLEAN, Grab(ok) PROVE HeldNested'
  BY <1>12, Zenon DEF Grab, Throw, HeldNested
<1>13. ASSUME NEW ok \in BOOLEAN, Convert(ok) PROVE HeldNested'
  BY <1>13, Zenon DEF Convert, Throw, HeldNested
<1>14. ASSUME NEW ok \in BOOLEAN, Map(ok) PROVE HeldNested'
  <2>1. slot \in Slots
    BY DEF slot, Slots, PipeScalars
  <2>2. held' = held \/ (pc = "map" /\ held' = held \cup {<<"mapped", slot>>})
    BY <1>14, Zenon DEF Map
  <2>3. pc = "map" => <<"registered", slot>> \in held
    BY <2>1, MadeSlots
  <2> QED
    BY <2>1, <2>2, <2>3, SlotPairs, ObjectsAre, Zenon DEF HeldNested
<1>15. ASSUME NEW ok \in BOOLEAN, Submit(ok) PROVE HeldNested'
  BY <1>15, Zenon DEF Submit, Throw, HeldNested
<1>16. ASSUME NEW ok \in BOOLEAN, DrainLock(ok) PROVE HeldNested'
  <2>1. drain # <<>> /\ drain[2] = "lock"
        /\ (held' = held \/ held' = held \cup {<<"locked", drain[1]>>})
    BY <1>16, Zenon DEF DrainLock
  <2>2. drain[1] \in Slots /\ pc \notin {"options", "setup", "unwind", "exit"}
    BY <2>1 DEF PipeDrain, PipePlaces
  <2>3. <<"bitstream", drain[1]>> \in held
    BY <2>2, MadeSlots
  <2>4. <<"mapped", drain[1]>> \in held
    BY <2>1 DEF HeldSlots
  <2> QED
    BY <2>1, <2>2, <2>3, <2>4, SlotPairs, ObjectsAre, Zenon DEF HeldNested
<1>17. ASSUME NEW ok \in BOOLEAN, DrainWrite(ok) PROVE HeldNested'
  BY <1>17, Zenon DEF DrainWrite, DrainFails, Throw, Notify, HeldNested
<1>18. ASSUME NEW ok \in BOOLEAN, DrainRelease(ok) PROVE HeldNested'
  <2>1. drain # <<>> /\ drain[1] \in Slots
    BY <1>18, Zenon DEF DrainRelease, PipeDrain
  <2>2. \/ held' = held
        \/ held' = held \ {<<"locked", drain[1]>>}
        \/ drain[2] = "unmap" /\ held' = held \ {<<"mapped", drain[1]>>}
    BY <1>18, Zenon DEF DrainRelease
  <2>3. CASE held' = held
    BY <2>3, Zenon DEF HeldNested
  <2>4. CASE held' = held \ {<<"locked", drain[1]>>}
    BY <2>1, <2>4, SlotNeeded, Zenon DEF HeldNested
  <2>5. CASE drain[2] = "unmap" /\ held' = held \ {<<"mapped", drain[1]>>}
    BY <2>1, <2>5, SlotNeeded, ZenonT(30) DEF HeldNested, HeldSlots
  <2> QED
    BY <2>2, <2>3, <2>4, <2>5
<1>19. ASSUME NEW ok \in BOOLEAN, NEW realtime \in BOOLEAN, NEW robust \in BOOLEAN,
             Gates(ok, realtime, robust)
      PROVE  HeldNested'
  BY <1>19, Zenon DEF Gates, HeldNested
<1>20. CASE WorkerTake
  BY <1>20, Zenon DEF WorkerTake, HeldNested
<1>21. CASE WorkerRelease
  BY <1>21, Zenon DEF WorkerRelease, HeldNested
<1>22. CASE WorkerNotify
  BY <1>22, Zenon DEF WorkerNotify, Notify, HeldNested
<1>23. CASE UNCHANGED pipelineVars
  BY <1>23, Zenon DEF pipelineVars, HeldNested
<1> QED
  BY <1>1, <1>2, <1>3, <1>4, <1>5, <1>6, <1>7, <1>8, <1>9, <1>10, <1>11, <1>12,
     <1>13, <1>14, <1>15, <1>16, <1>17, <1>18, <1>19, <1>20, <1>21, <1>22, <1>23
    DEF PipelineNext, MainStep, DrainStep, WorkerStep

\* What the set-up made is there until the unwinding.
LEMMA HeldSetupNext ==
    ASSUME PipeScalars, PipePlaces, HeldNested, HeldSetup, [PipelineNext]_pipelineVars
    PROVE  HeldSetup'
<1>1. CASE ParseOptions
  BY <1>1, Zenon DEF ParseOptions, endVars, progVars, HeldSetup
<1>2. CASE StartLoop
  BY <1>2, Zenon DEF StartLoop, endVars, progVars, HeldSetup
<1>3. CASE WaitForSlot
  BY <1>3, Zenon DEF WaitForSlot, Throw, endVars, progVars, HeldSetup
<1>4. CASE HandOff
  BY <1>4, Zenon DEF HandOff, Notify, endVars, progVars, HeldSetup
<1>5. CASE FinishInput
  BY <1>5, Zenon DEF FinishInput, Notify, endVars, progVars, HeldSetup
<1>6. CASE Join
  BY <1>6, Zenon DEF Join, Throw, endVars, progVars, HeldSetup
<1>7. CASE Catch
  BY <1>7, Zenon DEF Catch, Notify, endVars, progVars, HeldSetup
<1>8. CASE CatchJoin
  BY <1>8, Zenon DEF CatchJoin, endVars, progVars, HeldSetup
<1>9. CASE Unwind
  <2> DEFINE left == {i \in DOMAIN ReleaseOrder : ReleaseOrder[i] \in held}
  <2>1. CASE left = {}
    <3>1. held \subseteq {TestSource}
      BY <2>1, Zenon DEF HeldNested, Objects
    <3>2. pc = "unwind" /\ pc' = "exit" /\ held' = held /\ setup' = setup /\ code' = code
      BY <1>9, <2>1, Zenon DEF Unwind
    <3> QED
      BY ONLY <3>1, <3>2, HeldSetup, Zenon DEF HeldSetup
  <2>2. CASE left # {}
    <3>1. pc = "unwind" /\ pc' = pc /\ held' \subseteq held /\ setup' = setup /\ code' = code
      BY <1>9, <2>2, Zenon DEF Unwind
    <3> QED
      BY ONLY <3>1, HeldSetup, Zenon DEF HeldSetup
  <2> QED
    BY <2>1, <2>2
<1>10. ASSUME NEW ok \in BOOLEAN, Acquire(ok) PROVE HeldSetup'
  <2>0. pc = "setup" => TestSource \notin held
    BY Zenon DEF HeldSetup
  <2>1. CASE /\ pc = "setup" /\ pc' = "unwind" /\ code' = 3 /\ setup' = setup
             /\ \/ held' = held
                \/ SetupSteps[setup + 1] = SelfTest /\ held' = held \cup {TestSource}
    <3>1. SetupSteps[setup + 1] = SelfTest => setup = Len(CudaSetup)
      <4>1. \A i \in 1..17 : SetupSteps[i] = SelfTest => i = 5
        BY SetupStepsAre, SMTT(30) DEF SelfTest
      <4>2. PipeScalars /\ setup # 17 => setup + 1 \in 1..17
        BY SetupStepsAre DEF PipeScalars
      <4>3. setup = 17 => pc # "setup" \/ setup < 17
        BY <1>10, SetupStepsAre, Zenon DEF Acquire
      <4> QED
        BY ONLY PipeScalars, <2>1, <4>1, <4>2, <4>3, SetupStepsAre DEF PipeScalars
    <3> QED
      BY ONLY <2>0, <2>1, <3>1, HeldSetup, Zenon DEF HeldSetup
  <2>2. CASE /\ pc = "setup" /\ setup < Len(SetupSteps)
             /\ pc' = pc /\ code' = code /\ setup' = setup + 1
             /\ SetupSteps[setup + 1] = <<"selftest", 0>> => SelfTestPasses
             /\ held' = held \cup ({SetupSteps[setup + 1]} \ {<<"selftest", 0>>})
    <3>1. \A i \in 1..setup + 1 : SetupSteps[i] \in held' \cup {<<"selftest", 0>>}
      <4>1. \A i \in 1..setup + 1 : i \in 1..setup \/ i = setup + 1
        BY DEF PipeScalars
      <4> QED
        BY ONLY <2>2, <4>1, HeldSetup, Zenon DEF HeldSetup
    <3>2. setup + 1 > Len(CudaSetup) => SelfTestPasses
      <4>1. setup + 1 > Len(CudaSetup) => setup > Len(CudaSetup) \/ setup + 1 = 5
        BY SetupStepsAre DEF PipeScalars
      <4> QED
        BY ONLY <2>2, <4>1, HeldSetup, SetupStepsAre, Zenon DEF HeldSetup
    <3>3. TestSource \notin held'
      <4>1. setup + 1 \in 1..17
        BY <2>2, SetupStepsAre DEF PipeScalars
      <4> QED
        BY ONLY <2>0, <2>2, <4>1, SourceApart, Zenon
    <3> QED
      BY ONLY <2>2, <3>1, <3>2, <3>3 DEF HeldSetup
  <2> QED
    BY ONLY <1>10, <2>1, <2>2, AcquireDoes, Zenon
<1>11. ASSUME NEW ok \in BOOLEAN, Invalidate(ok) PROVE HeldSetup'
  BY <1>11, Zenon DEF Invalidate, Throw, endVars, progVars, HeldSetup
<1>12. ASSUME NEW ok \in BOOLEAN, Grab(ok) PROVE HeldSetup'
  BY <1>12, Zenon DEF Grab, Throw, endVars, progVars, HeldSetup
<1>13. ASSUME NEW ok \in BOOLEAN, Convert(ok) PROVE HeldSetup'
  BY <1>13, Zenon DEF Convert, Throw, endVars, progVars, HeldSetup
<1>14. ASSUME NEW ok \in BOOLEAN, Map(ok) PROVE HeldSetup'
  <2>1. TestSource \in held' => TestSource \in held
    BY <1>14, SourceApart, Zenon DEF Map
  <2> QED
    BY <1>14, <2>1, Zenon DEF Map, Throw, endVars, progVars, HeldSetup
<1>15. ASSUME NEW ok \in BOOLEAN, Submit(ok) PROVE HeldSetup'
  BY <1>15, Zenon DEF Submit, Throw, endVars, progVars, HeldSetup
<1>16. ASSUME NEW ok \in BOOLEAN, DrainLock(ok) PROVE HeldSetup'
  <2>1. pc \notin {"options", "setup", "unwind", "exit"}
    BY <1>16, Zenon DEF DrainLock, PipePlaces
  <2>2. pc' \notin {"options", "setup", "unwind", "exit"} /\ UNCHANGED setup
    BY <1>16, <2>1, Zenon DEF DrainLock, DrainFails, Throw, Notify, progVars
  <2>3. TestSource \in held' => TestSource \in held
    BY <1>16, SourceApart, Zenon DEF DrainLock
  <2> QED
    BY <1>16, <2>1, <2>2, <2>3, Zenon DEF DrainLock, HeldSetup
<1>17. ASSUME NEW ok \in BOOLEAN, DrainWrite(ok) PROVE HeldSetup'
  <2>1. pc \notin {"options", "setup", "unwind", "exit"}
    BY <1>17, Zenon DEF DrainWrite, PipePlaces
  <2>2. pc' \notin {"options", "setup", "unwind", "exit"} /\ UNCHANGED setup
    BY <1>17, <2>1, Zenon DEF DrainWrite, DrainFails, Throw, Notify, progVars
  <2> QED
    BY <1>17, <2>1, <2>2, Zenon DEF DrainWrite, HeldSetup
<1>18. ASSUME NEW ok \in BOOLEAN, DrainRelease(ok) PROVE HeldSetup'
  <2>1. pc \notin {"options", "setup", "unwind", "exit"}
    BY <1>18, Zenon DEF DrainRelease, PipePlaces
  <2>2. pc' \notin {"options", "setup", "unwind", "exit"} /\ UNCHANGED setup
    BY <1>18, <2>1, Zenon DEF DrainRelease, DrainFails, Throw, Notify, progVars
  <2>3. \A i \in 1..setup : SetupSteps[i] \in held \cup {<<"selftest", 0>>} =>
          SetupSteps[i] \in held' \cup {<<"selftest", 0>>}
    <3>1. \/ held' = held
          \/ held' = held \ {<<"locked", drain[1]>>}
          \/ held' = held \ {<<"mapped", drain[1]>>}
      BY <1>18, Zenon DEF DrainRelease
    <3>2. \A i \in 1..17 : SetupSteps[i] # <<"locked", drain[1]>> /\ SetupSteps[i] # <<"mapped", drain[1]>>
      BY ONLY SetupStepsAre
    <3>3. \A i \in 1..setup : i \in 1..17
      BY SetupStepsAre DEF PipeScalars
    <3> QED
      BY ONLY <3>1, <3>2, <3>3, Zenon
  <2>4. TestSource \in held' => TestSource \in held
    BY <1>18, Zenon DEF DrainRelease
  <2> QED
    BY <2>1, <2>2, <2>3, <2>4, Zenon DEF HeldSetup
<1>19. ASSUME NEW ok \in BOOLEAN, NEW realtime \in BOOLEAN, NEW robust \in BOOLEAN,
             Gates(ok, realtime, robust)
      PROVE  HeldSetup'
  BY <1>19, Zenon DEF Gates, endVars, progVars, HeldSetup
<1>20. CASE WorkerTake
  <2>1. pc \notin {"options", "setup", "unwind", "exit"}
    BY <1>20, Zenon DEF WorkerTake, PipePlaces
  <2>2. pc' \notin {"options", "setup", "unwind", "exit"} /\ UNCHANGED setup
    BY <1>20, <2>1, Zenon DEF WorkerTake, progVars
  <2> QED
    BY <1>20, <2>1, <2>2, Zenon DEF WorkerTake, HeldSetup
<1>21. CASE WorkerRelease
  <2>1. pc \notin {"options", "setup", "unwind", "exit"}
    BY <1>21, Zenon DEF WorkerRelease, PipePlaces
  <2>2. pc' \notin {"options", "setup", "unwind", "exit"} /\ UNCHANGED setup
    BY <1>21, <2>1, Zenon DEF WorkerRelease, progVars
  <2> QED
    BY <1>21, <2>1, <2>2, Zenon DEF WorkerRelease, HeldSetup
<1>22. CASE WorkerNotify
  <2>1. pc \notin {"options", "setup", "unwind", "exit"}
    BY <1>22, Zenon DEF WorkerNotify, PipePlaces
  <2>2. pc' \notin {"options", "setup", "unwind", "exit"} /\ UNCHANGED setup
    BY <1>22, <2>1, Zenon DEF WorkerNotify, Notify, progVars
  <2> QED
    BY <1>22, <2>1, <2>2, Zenon DEF WorkerNotify, HeldSetup
<1>23. CASE UNCHANGED pipelineVars
  BY <1>23, Zenon DEF pipelineVars, progVars, HeldSetup
<1> QED
  BY <1>1, <1>2, <1>3, <1>4, <1>5, <1>6, <1>7, <1>8, <1>9, <1>10, <1>11, <1>12,
     <1>13, <1>14, <1>15, <1>16, <1>17, <1>18, <1>19, <1>20, <1>21, <1>22, <1>23
    DEF PipelineNext, MainStep, DrainStep, WorkerStep

LEMMA DrainFailsHeld ==
    ASSUME PipePlaces, HeldSlots, DrainFails, drain # <<>>, UNCHANGED <<frame, held, pending>>
    PROVE  HeldSlots'
<1>1. slot' = slot
  BY DEF slot
<1>2. CASE opt.depth = 1
  BY <1>1, <1>2 DEF DrainFails, HeldSlots, Notify
<1>3. CASE opt.depth # 1
  BY <1>1, <1>3, Zenon DEF DrainFails, Throw, HeldSlots, PipePlaces
<1> QED
  BY <1>2, <1>3

\* A slot stays mapped until its drain is over.
LEMMA HeldSlotsNext ==
    ASSUME PipeScalars, PipeFlags, PipeQueues, PipeDrain, PipePlaces, WorkerSlots, HeldSlots, [PipelineNext]_pipelineVars
    PROVE  HeldSlots'
<1> USE DEF progVars, slotVars, endVars, outVars, PipePlaces, HeldSlots, slot
<1>1. CASE ParseOptions
  BY <1>1 DEF ParseOptions
<1>2. CASE StartLoop
  BY <1>2 DEF StartLoop
<1>3. CASE WaitForSlot
  BY <1>3 DEF WaitForSlot, Throw
<1>4. CASE HandOff
  <2>1. CASE opt.depth = 0
    <3>1. /\ pc = "handoff" /\ pc' = "drain" /\ drain' = <<slot, "lock">> /\ UNCHANGED <<held, pending, worker>>
      BY <1>4, <2>1, Zenon DEF HandOff
    <3>2. drain'[1] = slot /\ drain'[2] = "lock"
      BY ONLY <3>1
    <3> QED
      BY ONLY <3>1, <3>2, HeldSlots, Zenon DEF HeldSlots
  <2>2. CASE opt.depth # 0
    <3>1. /\ pc = "handoff" /\ pc' = "check" /\ UNCHANGED <<held, drain>>
          /\ pending' = Append(pending, slot) /\ worker' = Notify(worker)
      BY <1>4, <2>2, Zenon DEF HandOff
    <3>2. \A i \in 1..Len(pending') : (i \in 1..Len(pending) /\ pending'[i] = pending[i]) \/ pending'[i] = slot
      BY ONLY <3>1, PipeQueues DEF PipeQueues
    <3>3. worker' \in {"check", "sleep", "drain", "release", "notify"} =>
            worker \in {"check", "sleep", "drain", "release", "notify"}
      BY ONLY <3>1 DEF Notify
    <3> QED
      BY ONLY <3>1, <3>2, <3>3, HeldSlots, Zenon DEF HeldSlots
  <2> QED
    BY <2>1, <2>2
<1>5. CASE FinishInput
  BY <1>5 DEF FinishInput, Notify
<1>6. CASE Join
  BY <1>6 DEF Join, Throw
<1>7. CASE Catch
  BY <1>7 DEF Catch, Notify
<1>8. CASE CatchJoin
  BY <1>8 DEF CatchJoin
<1>9. CASE Unwind
  BY <1>9 DEF Unwind
<1>10. ASSUME NEW ok \in BOOLEAN, Acquire(ok) PROVE HeldSlots'
  BY <1>10 DEF Acquire
<1>11. ASSUME NEW ok \in BOOLEAN, Invalidate(ok) PROVE HeldSlots'
  BY <1>11 DEF Invalidate, Throw
<1>12. ASSUME NEW ok \in BOOLEAN, Grab(ok) PROVE HeldSlots'
  BY <1>12 DEF Grab, Throw
<1>13. ASSUME NEW ok \in BOOLEAN, Convert(ok) PROVE HeldSlots'
  BY <1>13 DEF Convert, Throw
<1>14. ASSUME NEW ok \in BOOLEAN, Map(ok) PROVE HeldSlots'
  BY <1>14 DEF Map, Throw
<1>15. ASSUME NEW ok \in BOOLEAN, Submit(ok) PROVE HeldSlots'
  BY <1>15 DEF Submit, Throw
<1>16. ASSUME NEW ok \in BOOLEAN, DrainLock(ok) PROVE HeldSlots'
  <2>1. /\ drain # <<>> /\ drain[2] = "lock" /\ UNCHANGED <<pending, frame>>
        /\ \/ DrainFails /\ UNCHANGED held
           \/ /\ held' = held \cup {<<"locked", drain[1]>>} /\ drain' = <<drain[1], "write">>
              /\ UNCHANGED <<pc, worker>>
    BY <1>16, Zenon DEF DrainLock, slotVars
  <2>2. CASE DrainFails /\ UNCHANGED held
    BY <2>1, <2>2, DrainFailsHeld
  <2>3. CASE /\ held' = held \cup {<<"locked", drain[1]>>} /\ drain' = <<drain[1], "write">>
             /\ UNCHANGED <<pc, worker>>
    <3>1. drain'[1] = drain[1] /\ drain'[2] = "write" /\ slot' = slot
      BY ONLY <2>1, <2>3 DEF slot
    <3> QED
      BY ONLY <2>1, <2>3, <3>1, HeldSlots, Zenon DEF HeldSlots
  <2> QED
    BY <2>1, <2>2, <2>3
<1>17. ASSUME NEW ok \in BOOLEAN, DrainWrite(ok) PROVE HeldSlots'
  <2>1. /\ drain # <<>> /\ drain[2] = "write" /\ UNCHANGED <<pending, frame, held>>
        /\ \/ DrainFails
           \/ drain' = <<drain[1], "unlock">> /\ UNCHANGED <<pc, worker>>
    BY <1>17, Zenon DEF DrainWrite, slotVars
  <2>2. CASE DrainFails
    BY <2>1, <2>2, DrainFailsHeld
  <2>3. CASE drain' = <<drain[1], "unlock">> /\ UNCHANGED <<pc, worker>>
    <3>1. drain'[1] = drain[1] /\ drain'[2] = "unlock" /\ slot' = slot
      BY ONLY <2>1, <2>3 DEF slot
    <3> QED
      BY ONLY <2>1, <2>3, <3>1, HeldSlots, Zenon DEF HeldSlots
  <2> QED
    BY <2>1, <2>2, <2>3
<1>18. ASSUME NEW ok \in BOOLEAN, DrainRelease(ok) PROVE HeldSlots'
  <2>1. /\ drain # <<>> /\ drain[2] \in {"unlock", "unmap"} /\ UNCHANGED pending
        /\ \/ DrainFails /\ UNCHANGED <<held, frame>>
           \/ /\ drain[2] = "unlock" /\ held' = held \ {<<"locked", drain[1]>>}
              /\ drain' = <<drain[1], "unmap">> /\ UNCHANGED <<pc, worker, frame>>
           \/ /\ opt.depth = 1 /\ drain[2] = "unmap" /\ held' = held \ {<<"mapped", drain[1]>>}
              /\ drain' = <<drain[1], "done">> /\ UNCHANGED <<pc, frame>>
           \/ /\ opt.depth # 1 /\ drain' = <<>> /\ worker' = worker /\ pc' = "check"
    BY <1>18, Zenon DEF DrainRelease, slotVars
  <2>2. CASE DrainFails /\ UNCHANGED <<held, frame>>
    BY <2>1, <2>2, DrainFailsHeld
  <2>3. CASE /\ drain[2] = "unlock" /\ held' = held \ {<<"locked", drain[1]>>}
             /\ drain' = <<drain[1], "unmap">> /\ UNCHANGED <<pc, worker, frame>>
    <3>1. drain'[1] = drain[1] /\ drain'[2] = "unmap" /\ slot' = slot
      BY ONLY <2>3 DEF slot
    <3>2. \A s : <<"mapped", s>> # <<"locked", drain[1]>>
      OBVIOUS
    <3> QED
      BY ONLY <2>1, <2>3, <3>1, <3>2, HeldSlots, Zenon DEF HeldSlots
  <2>4. CASE /\ opt.depth = 1 /\ drain[2] = "unmap" /\ held' = held \ {<<"mapped", drain[1]>>}
             /\ drain' = <<drain[1], "done">> /\ UNCHANGED <<pc, frame>>
    <3>1. drain'[2] = "done" /\ drain' # <<>> /\ slot' = slot
      BY ONLY <2>4 DEF slot
    <3>2. worker = "drain" /\ ~workerError /\ worker # "none"
      BY ONLY <2>1, <2>4, PipePlaces, PipeFlags, ParsedFacts DEF PipePlaces, PipeFlags
    <3>3. Behind = Len(pending) + 1 /\ Len(pending) \in Nat
      BY ONLY <2>1, PipeQueues DEF Behind, PipeQueues
    <3>4. slot \in 0..1 /\ 1 - slot # slot
      BY DEF slot, PipeScalars
    <3> HIDE DEF slot, Behind
    <3>5. pc \in {"submit", "handoff"} => drain[1] # slot
      BY ONLY <2>1, <3>2, <3>3, <3>4, WorkerSlots DEF WorkerSlots, Filling
    <3>6. \A i \in 1..Len(pending) : pending[i] # drain[1]
      BY ONLY <2>1, <3>2, <3>3, <3>4, WorkerSlots DEF WorkerSlots
    <3>7. \A s : s # drain[1] => <<"mapped", s>> # <<"mapped", drain[1]>>
      OBVIOUS
    <3> QED
      BY ONLY <2>1, <2>4, <3>1, <3>2, <3>5, <3>6, <3>7, HeldSlots, Zenon DEF HeldSlots
  <2>5. CASE opt.depth # 1 /\ drain' = <<>> /\ worker' = worker /\ pc' = "check"
    <3>1. worker = "none"
      BY ONLY <2>5, PipePlaces DEF PipePlaces
    <3> QED
      BY ONLY <2>5, <3>1, Zenon DEF HeldSlots
  <2> QED
    BY <2>1, <2>2, <2>3, <2>4, <2>5
<1>19. ASSUME NEW ok \in BOOLEAN, NEW realtime \in BOOLEAN, NEW robust \in BOOLEAN,
             Gates(ok, realtime, robust)
      PROVE  HeldSlots'
  BY <1>19 DEF Gates
<1>20. CASE WorkerTake
  <2>1. CASE pending = <<>>
    <3>1. UNCHANGED <<pc, held, frame, drain, pending>>
      BY <1>20, <2>1, Zenon DEF WorkerTake, progVars
    <3>2. Len(pending) = 0 /\ UNCHANGED slot
      BY ONLY <2>1, <3>1 DEF slot
    <3> QED
      BY ONLY <3>1, <3>2, HeldSlots DEF HeldSlots
  <2>2. CASE pending # <<>>
    <3>1. /\ worker = "check" /\ drain' = <<Head(pending), "lock">> /\ pending' = Tail(pending)
          /\ UNCHANGED <<pc, held, frame>>
      BY <1>20, <2>2, Zenon DEF WorkerTake, progVars
    <3>2. drain'[1] = pending[1] /\ drain'[2] = "lock" /\ 1 \in 1..Len(pending)
      BY ONLY <3>1, <2>2, PipeQueues DEF PipeQueues
    <3>3. \A i \in 1..Len(pending') : i + 1 \in 1..Len(pending) /\ pending'[i] = pending[i + 1]
      BY ONLY <3>1, <2>2, PipeQueues DEF PipeQueues
    <3>4. slot' = slot
      BY ONLY <3>1 DEF slot
    <3> QED
      BY ONLY <3>1, <3>2, <3>3, <3>4, HeldSlots, Zenon DEF HeldSlots
  <2> QED
    BY <2>1, <2>2
<1>21. CASE WorkerRelease
  BY <1>21 DEF WorkerRelease
<1>22. CASE WorkerNotify
  BY <1>22 DEF WorkerNotify, Notify
<1>23. CASE UNCHANGED pipelineVars
  BY <1>23 DEF pipelineVars
<1> QED
  BY <1>1, <1>2, <1>3, <1>4, <1>5, <1>6, <1>7, <1>8, <1>9, <1>10, <1>11, <1>12,
     <1>13, <1>14, <1>15, <1>16, <1>17, <1>18, <1>19, <1>20, <1>21, <1>22, <1>23
    DEF PipelineNext, MainStep, DrainStep, WorkerStep

\* The encoder pipeline starts with nothing made, nothing written and no worker.
LEMMA PipeInitially ==
    ASSUME PipelineInit
    PROVE  PipeInv
<1> USE DEF PipelineInit
<1>1. PipeType
  <2>1. PipeScalars
    BY SetupStepsAre DEF PipeScalars, MainPlaces, WorkerPlaces
  <2>2. PipeFlags /\ PipeDrain
    BY DEF PipeFlags, PipeDrain
  <2>3. PipeArrays /\ PipeQueues
    BY DEF PipeArrays, PipeQueues
  <2> QED
    BY <2>1, <2>2, <2>3 DEF PipeType
<1>2. PipePlaces
  BY DEF PipePlaces
<1>3. Done = 0 /\ ~Past /\ Behind = 0
  BY DEF Done, Past, Behind
<1>4. WorkerSlots /\ MainSlots
  BY <1>3 DEF WorkerSlots, MainSlots, Filling, Slots
<1>5. PipeFiles
  BY <1>3 DEF PipeFiles, Kept
<1>6. HeldNested /\ HeldSlots
  BY DEF HeldNested, HeldSlots
<1>7. HeldSetup
  BY SetupStepsAre DEF HeldSetup
<1> QED
  BY <1>1, <1>2, <1>4, <1>5, <1>6, <1>7 DEF PipeInv

LEMMA PipeAlways == PipelineSpec => []PipeInv
<1>1. PipelineInit => PipeInv
  BY PipeInitially
<1>2. PipeInv /\ [PipelineNext]_pipelineVars => PipeInv'
  <2> SUFFICES ASSUME PipeInv, [PipelineNext]_pipelineVars PROVE PipeInv'
    OBVIOUS
  <2> USE DEF PipeInv, PipeType
  <2>1. PipeScalars' /\ PipeFlags' /\ PipeArrays' /\ PipeQueues' /\ PipeDrain'
    BY PipeScalarsNext, PipeFlagsNext, PipeArraysNext, PipeQueuesNext, PipeDrainNext
  <2>2. PipePlaces'
    BY PipePlacesNext
  <2>3. WorkerSlots' /\ MainSlots'
    BY WorkerSlotsNext, MainSlotsNext
  <2>4. PipeFiles'
    BY PipeFilesNext
  <2>5. HeldNested' /\ HeldSetup' /\ HeldSlots'
    BY HeldNestedNext, HeldSetupNext, HeldSlotsNext
  <2> QED
    BY <2>1, <2>2, <2>3, <2>4, <2>5
<1> QED
  BY <1>1, <1>2, PTL DEF PipelineSpec

\* ResourcesNest, for every command line: through every failing set-up step, a worker that dies
\* holding a lock and ~Resources, no driver object outlives what it was made from, the worker has
\* been joined before the objects it uses go, and the process ends holding none, but for the self
\* test's source where the set-up failed in the self test.
THEOREM ResourcesNestAlways == PipelineSpec => []ResourcesNest
<1>1. PipeInv => ResourcesNest
  BY DEF PipeInv, ResourcesNest, HeldNested, HeldSetup, PipePlaces
<1> QED
  BY <1>1, PipeAlways, PTL

\* FramesInOrder, for every command line: no slot of the two is overwritten before its drain is
\* done, so that the files hold the captured frames in order, each once and with its own picture,
\* and a run that exits 0 has written them all.
THEOREM FramesInOrderAlways == PipelineSpec => []FramesInOrder
<1>1. PipeInv => FramesInOrder
  BY DEF PipeInv, FramesInOrder, PipeFiles, Done
<1> QED
  BY <1>1, PipeAlways, PTL

\* InvalidateAfterLoss, for every command line the parser accepts: the encoder is told of the
\* lost frame only once that frame's output has been taken and thrown away.
THEOREM InvalidateAfterLossAlways == PipelineSpec => []InvalidateAfterLoss
<1>1. PipeInv => InvalidateAfterLoss
  BY DEF PipeInv, InvalidateAfterLoss, PipeFiles
<1> QED
  BY <1>1, PipeAlways, PTL

\* One element more.
LEMMA OneMore ==
    ASSUME NEW S, NEW x, NEW n \in Nat, IsFiniteSet(S), Cardinality(S) = n, x \notin S
    PROVE  IsFiniteSet(S \cup {x}) /\ Cardinality(S \cup {x}) = n + 1
<1>1. /\ IsFiniteSet(S \cup {x})
      /\ Cardinality(S \cup {x}) = IF x \in S THEN Cardinality(S) ELSE Cardinality(S) + 1
  BY FS_AddElement
<1> QED
  BY <1>1

\* One of the kernel's thresholds, two of them, and all three.
LEMMA ThresholdCounts ==
    /\ Cardinality({43}) = 1
    /\ Cardinality({43, 128}) = 2
    /\ Cardinality({43, 128, 213}) = 3
<1> DEFINE second == 128
           third == 213
           one == {43}
           two == one \cup {second}
<1>1. IsFiniteSet(one) /\ Cardinality(one) = 1
  BY FS_Singleton
<1>2. second \notin one /\ third \notin two
  OBVIOUS
<1>3. {43, 128} = two /\ {43, 128, 213} = two \cup {third}
  OBVIOUS
<1>7. Cardinality({43}) = 1
  BY ONLY <1>1
<1> HIDE DEF second, third, one
<1>4. IsFiniteSet(two) /\ Cardinality(two) = 1 + 1
  BY <1>1, <1>2, OneMore
<1>5. Cardinality(two) = 2
  BY ONLY <1>4
<1> HIDE DEF two
<1>6. Cardinality(two \cup {third}) = 2 + 1
  BY <1>2, <1>4, <1>5, OneMore
<1> QED
  BY ONLY <1>3, <1>5, <1>6, <1>7

\* The kernel's three thresholds are the rounding of the reference.
LEMMA ThresholdsRound ==
    ASSUME NEW v \in 0..255
    PROVE  KernelExpand(v) = (v * 1023 + 127) \div 255
<1> DEFINE passed == {t \in {43, 128, 213} : v >= t}
<1>1. CASE v < 43
  <2>1. passed = {}
    BY <1>1
  <2>2. KernelExpand(v) = 4 * v
    BY <2>1, FS_EmptySet DEF KernelExpand
  <2> QED
    BY <1>1, <2>2
<1>2. CASE v >= 43 /\ v < 128
  <2>1. passed = {43}
    BY <1>2
  <2>2. KernelExpand(v) = 4 * v + 1
    BY <2>1, ThresholdCounts DEF KernelExpand
  <2> QED
    BY <1>2, <2>2
<1>3. CASE v >= 128 /\ v < 213
  <2>1. passed = {43, 128}
    BY <1>3
  <2>2. Cardinality({43, 128}) = 2
    BY ThresholdCounts
  <2>3. KernelExpand(v) = 4 * v + 2
    BY <2>1, <2>2 DEF KernelExpand
  <2> QED
    BY <1>3, <2>3
<1>4. CASE v >= 213
  <2>1. passed = {43, 128, 213}
    BY <1>4
  <2>2. Cardinality({43, 128, 213}) = 3
    BY ThresholdCounts
  <2>3. KernelExpand(v) = 4 * v + 3
    BY <2>1, <2>2 DEF KernelExpand
  <2> QED
    BY <1>4, <2>3
<1> QED
  BY <1>1, <1>2, <1>3, <1>4

\* As many times n as times m: none, or n is m.
LEMMA TimesSame ==
    ASSUME NEW y \in Nat, NEW n \in Nat, NEW m \in Nat
    PROVE  n * y = m * y <=> y = 0 \/ n = m
<1>1. ASSUME y # 0, n < m PROVE n * y # m * y
  <2>1. PICK d \in Nat \ {0} : m = n + d
    BY <1>1
  <2>2. m * y = n * y + d * y /\ d * y > 0
    BY <1>1, <2>1
  <2> QED
    BY <2>2
<1>2. ASSUME y # 0, m < n PROVE n * y # m * y
  <2>1. PICK d \in Nat \ {0} : n = m + d
    BY <1>2
  <2>2. n * y = m * y + d * y /\ d * y > 0
    BY <1>2, <2>1
  <2> QED
    BY <2>2
<1> QED
  BY <1>1, <1>2

\* The kernels store the sample of column x and row y where the encoder reads it.
SamePlace(width, height, pitch, x, y, plane, bytes) ==
    KernelOffset(width * y + x, plane, height, pitch, bytes)
      = EncoderOffset(x, y, plane, height, pitch, bytes)

\* A row ends where the next one starts.
Unpadded(width, pitch, bytes) == pitch = width * bytes

\* Where the kernels store a sample and where the encoder reads it, on a surface of any width,
\* height and pitch: the same place in the first row, and in the others exactly where the pitch
\* is the length of a row.
THEOREM ConversionPlaces ==
    \A width, height, pitch, x, y \in Nat, plane \in 1..3, bytes \in 1..2 :
      SamePlace(width, height, pitch, x, y, plane, bytes) <=> y = 0 \/ Unpadded(width, pitch, bytes)
<1> TAKE width, height, pitch, x, y \in Nat, plane \in 1..3, bytes \in 1..2
<1> DEFINE rows == (plane - 1) * height
<1>1. rows \in Nat /\ width * bytes \in Nat
  OBVIOUS
<1>2. KernelOffset(width * y + x, plane, height, pitch, bytes)
        = (width * bytes) * y + x * bytes + rows * pitch
  BY DEF KernelOffset
<1>3. EncoderOffset(x, y, plane, height, pitch, bytes) = rows * pitch + pitch * y + x * bytes
  BY DEF EncoderOffset
<1>4. /\ (width * bytes) * y \in Int /\ x * bytes \in Int /\ rows * pitch \in Int
      /\ pitch * y \in Int
  BY <1>1
<1>5. (width * bytes) * y = pitch * y <=> y = 0 \/ width * bytes = pitch
  BY <1>1, TimesSame
<1> HIDE DEF rows
<1> QED
  BY ONLY <1>2, <1>3, <1>4, <1>5 DEF SamePlace, Unpadded

\* ConversionExact, by the rounding of every byte and the place of every store.
THEOREM ConversionExactAlways == PipelineSpec => []ConversionExact
<1>1. ASSUME NEW v \in 0..255
      PROVE  64 * KernelExpand(v) = ExpandToMsbAligned10(v)
  BY ThresholdsRound DEF ExpandToMsbAligned10
<1>2. ASSUME NEW pitch \in Nat, NEW x \in Nat, NEW y \in Nat, NEW plane \in 1..3, NEW bytes \in 1..2
      PROVE  SamePlace(3, 2, pitch, x, y, plane, bytes) <=> y = 0 \/ Unpadded(3, pitch, bytes)
  BY ONLY ConversionPlaces
<1>3. \A x \in 0..2, y \in 0..1, plane \in 1..3, bytes \in 1..2 :
        \A pitch \in 3 * bytes..3 * bytes + 2 :
          SamePlace(3, 2, pitch, x, y, plane, bytes) <=> y = 0 \/ Unpadded(3, pitch, bytes)
  BY ONLY <1>2
<1>4. \A x \in 0..2, y \in 0..1, plane \in 1..3, bytes \in 1..2 :
        \A pitch \in 3 * bytes..3 * bytes + 2 :
          KernelOffset(3 * y + x, plane, 2, pitch, bytes) = EncoderOffset(x, y, plane, 2, pitch, bytes)
            <=> y = 0 \/ pitch = 3 * bytes
  BY ONLY <1>3, Zenon DEF SamePlace, Unpadded
<1>5. ConversionExact
  BY <1>1, <1>4, Zenon DEF ConversionExact
<1> QED
  BY <1>5, PTL

-----------------------------------------------------------------------------
(* The raw tablet bridge *)

ClientSidePlaces ==
    {"open", "connect", "attach", "poll", "frame", "reports", "detach", "exit"}
HostSidePlaces ==
    {"start", "listen", "device", "descriptors", "create", "poll", "frame", "events", "destroy",
     "exit"}
EventTypes == {"get_report", "set_report", "output"}
FrameData == Nat \cup STRING \cup (STRING \X Nat \X Nat)
UpTypes == {"device", "descriptor", "input", "reply", "detach"}
UpFrames == [type : UpTypes, itf : Nat, tx : Nat, data : FrameData]
DownFrames == [type : EventTypes, itf : Nat, tx : Nat, data : Nat]
Events == EventTypes \X Nat

\* The types, in parts.
TabletsType == tablets \in Seq(STRING) /\ Len(tablets) \in Nat \ {0}
BridgeClientType ==
    /\ DOMAIN bc = {"pc", "code", "opened", "grabbed", "sent", "ready"}
    /\ bc.pc \in ClientSidePlaces /\ bc.opened \in Nat /\ bc.sent \in Nat
    /\ bc.ready \subseteq Interfaces
BridgeHostType ==
    /\ DOMAIN bh = {"pc", "code", "count", "got", "devices", "running", "ready"}
    /\ bh.pc \in HostSidePlaces /\ bh.got \in Seq(Nat \X FrameData) /\ bh.devices \in Nat
    /\ bh.ready \subseteq Interfaces
WireType ==
    /\ wire = <<wire[1], wire[2]>> /\ wire[1] \in Seq(UpFrames) /\ wire[2] \in Seq(DownFrames)
    /\ ends \subseteq {"client", "host"}
ReportsType ==
    /\ pen \in [Interfaces -> Seq(Nat)] /\ read \in [Interfaces -> Seq(Nat)]
    /\ injected \in [Interfaces -> Seq(Nat)] /\ made \in [Interfaces -> Nat]
EventsType == kernel \in [Interfaces -> Seq(Events)] /\ asked \in [Interfaces -> Nat]
BridgeType ==
    /\ TabletsType /\ BridgeClientType /\ BridgeHostType /\ WireType /\ ReportsType
    /\ EventsType

\* The frames that open a connection: the device, then the interfaces' descriptors.
Preamble(k) ==
    IF k = 0 THEN Frame("device", 0, 0, Len(tablets))
             ELSE Frame("descriptor", k, 0, tablets[1])
\* How many of them the host has received.
Received == IF bh.pc \in {"start", "listen", "device"} THEN 0 ELSE 1 + Len(bh.got)
Both == "client" \in ends /\ "host" \in ends
IsInput(f, i) == f.type = "input" /\ f.itf = i

\* The interfaces opened are of the first one's tablet.
OneModel ==
    /\ \A i \in 1..bc.opened : tablets[i] = tablets[1]
    /\ bc.pc \notin {"open", "exit"} => bc.opened = Len(tablets)

\* What a place of the client says of the rest.
ClientPhase ==
    /\ bc.pc \in {"open", "connect"} => bc.sent = 0 /\ ends = {} /\ wire[1] = <<>>
    /\ bc.pc \notin {"open", "connect", "exit"} => "client" \in ends
    /\ bc.pc = "attach" => bc.sent <= Len(tablets)
    /\ bc.pc \in {"reports", "frame"} => \A i \in bc.ready : pen[i] # <<>>
    /\ bc.pc = "reports" => bc.ready # {}
    /\ bc.pc = "frame" => wire[2] # <<>>

\* What a place of the host says of the rest.
HostPhase ==
    /\ bh.pc \in {"start", "listen"} => ends = {} /\ wire[1] = <<>>
    /\ bh.pc \in {"start", "listen", "device"} => bh.got = <<>>
    /\ bh.pc \notin {"create", "poll", "frame", "events", "destroy"} => bh.devices = 0
    /\ bh.pc = "descriptors" => bh.count = Len(tablets) /\ Len(bh.got) < Len(tablets)
    /\ bh.pc \in {"create", "poll", "frame", "events", "destroy"} =>
         bh.count = Len(tablets) /\ Len(bh.got) = Len(tablets)
    /\ bh.pc = "create" => bh.devices < Len(tablets)
    /\ bh.devices <= Len(tablets)
    /\ bh.pc \in {"frame", "events"} => \A i \in bh.ready : kernel[i] # <<>>
    /\ bh.pc = "events" => bh.ready # {}
    /\ bh.pc = "frame" => wire[1] # <<>>

\* The host has the descriptors in the order of the interfaces.
Described == \A j \in 1..Len(bh.got) : bh.got[j] = <<j, tablets[1]>>

\* The connection carries what is left of the preamble before anything else.
Link == bh.pc # "exit" =>
    /\ \A k \in 1..Len(wire[1]) :
         Received + k - 1 <= Len(tablets) => wire[1][k] = Preamble(Received + k - 1)
    /\ Both => IF bc.pc = "attach" THEN Received + Len(wire[1]) = bc.sent
               ELSE Len(tablets) < Received + Len(wire[1])

\* An interface's reports: produced, waiting, read and injected are consecutive.
Reports == \A i \in Interfaces :
    /\ \A n \in 1..Len(read[i]) : read[i][n] = n
    /\ \A n \in 1..Len(pen[i]) : pen[i][n] = Len(read[i]) + n
    /\ made[i] = Len(read[i]) + Len(pen[i])
    /\ \A n \in 1..Len(injected[i]) : injected[i][n] = n
    /\ Len(injected[i]) <= Len(read[i])

\* A report is for one of the interfaces.
Addressed == \A k \in 1..Len(wire[1]) : wire[1][k].type = "input" => wire[1][k].itf \in Interfaces

\* Of the reports a + 1..b of interface i, the frames w carry the first ones, in order;
CarriesSome(w, a, b, i) ==
    /\ \A k \in 1..Len(w) : IsInput(w[k], i) =>
         /\ w[k].data \in a + 1..b
         /\ \A d \in a + 1..w[k].data : \E j \in 1..k : IsInput(w[j], i) /\ w[j].data = d
    /\ \A k, l \in 1..Len(w) :
         IsInput(w[k], i) /\ IsInput(w[l], i) /\ k < l => w[k].data < w[l].data
\* they carry every one.
CarriesEvery(w, a, b, i) ==
    \A d \in a + 1..b : \E j \in 1..Len(w) : IsInput(w[j], i) /\ w[j].data = d

\* The connection carries the reports that follow those injected, all of them while both
\* ends are open.
Inputs == \A i \in Interfaces :
    /\ CarriesSome(wire[1], Len(injected[i]), Len(read[i]), i)
    /\ Both => CarriesEvery(wire[1], Len(injected[i]), Len(read[i]), i)

\* A request and its reply are about the same event of the same interface.
Requests ==
    /\ \A i \in Interfaces : \A n \in 1..Len(kernel[i]) : kernel[i][n][2] \in 1..asked[i]
    /\ \A k \in 1..Len(wire[2]) :
         LET f == wire[2][k]
         IN  /\ f.itf \in Interfaces /\ f.data \in 1..asked[f.itf]
             /\ f.type # "output" => f.tx = f.data
    /\ \A k \in 1..Len(wire[1]) :
         LET f == wire[1][k]
         IN  f.type = "reply" => /\ f.itf \in Interfaces /\ f.tx \in 1..asked[f.itf]
                                 /\ f.data = <<tablets[1], f.itf, f.tx>>
    /\ \A a \in answers :
         /\ a[1] \in Interfaces /\ a[2] \in 1..asked[a[1]]
         /\ a[3] = <<tablets[1], a[1], a[2]>>

\* Nothing is read before the connection stands.
Unread == bc.pc \in {"open", "connect"} => \A i \in Interfaces : read[i] = <<>>

BridgeInv ==
    /\ BridgeType /\ OneModel /\ ClientPhase /\ HostPhase /\ Described /\ Link /\ Reports
    /\ Addressed /\ Inputs /\ Requests /\ Unread

-----------------------------------------------------------------------------
(* What each action does *)

LEMMA PairReplaced ==
    ASSUME NEW w, w = <<w[1], w[2]>>, NEW x
    PROVE  [w EXCEPT ![1] = x] = <<x, w[2]>> /\ [w EXCEPT ![2] = x] = <<w[1], x>>
<1>1. \A a, b : [<<a, b>> EXCEPT ![1] = x] = <<x, b>> /\ [<<a, b>> EXCEPT ![2] = x] = <<a, x>>
  OBVIOUS
<1>2. PICK a, b : w = <<a, b>>
  BY Zenon
<1>3. w[1] = a /\ w[2] = b
  BY ONLY <1>2
<1> QED
  BY ONLY <1>1, <1>2, <1>3, Zenon

LEMMA EndsCount ==
    ASSUME ends \subseteq {"client", "host"}
    PROVE  Cardinality(ends) < 2 <=> ~Both
<1>1. CASE ends = {}
  BY <1>1, FS_EmptySet DEF Both
<1>2. CASE ends = {"client"}
  <2>1. Cardinality(ends) = 1
    BY ONLY <1>2, FS_Singleton
  <2> QED
    BY ONLY <1>2, <2>1 DEF Both
<1>3. CASE ends = {"host"}
  <2>1. Cardinality(ends) = 1
    BY ONLY <1>3, FS_Singleton
  <2> QED
    BY ONLY <1>3, <2>1 DEF Both
<1>4. CASE ends = {"client", "host"}
  <2>1. IsFiniteSet({"client"}) /\ Cardinality({"client"}) = 1 /\ "host" \notin {"client"}
    BY FS_Singleton
  <2>2. Cardinality({"client"} \cup {"host"}) = 2
    BY ONLY <2>1, FS_AddElement
  <2>3. ends = {"client"} \cup {"host"}
    BY <1>4
  <2> QED
    BY ONLY <1>4, <2>2, <2>3 DEF Both
<1> QED
  BY <1>1, <1>2, <1>3, <1>4

\* What sending a frame does to the connection.
Up(f) ==
    /\ wire' = <<wire'[1], wire[2]>>
    /\ IF Both THEN wire'[1] = Append(wire[1], f) ELSE wire'[1] = wire[1]
Down(f) ==
    /\ wire' = <<wire[1], wire'[2]>>
    /\ IF Both THEN wire'[2] = Append(wire[2], f) ELSE wire'[2] = wire[2]
UpTaken == wire[1] # <<>> /\ wire' = <<Tail(wire[1]), wire[2]>>

LEMMA SendUp ==
    ASSUME WireType, NEW f, SendFrame(1, f)
    PROVE  Up(f)
<1>1. wire = <<wire[1], wire[2]>>
  BY DEF WireType
<1>2. CASE Both
  <2>1. wire' = [wire EXCEPT ![1] = Append(wire[1], f)]
    BY <1>2, EndsCount DEF SendFrame, WireType
  <2>2. wire' = <<Append(wire[1], f), wire[2]>>
    BY ONLY <1>1, <2>1, PairReplaced, Zenon
  <2>3. wire'[1] = Append(wire[1], f)
    BY ONLY <2>2
  <2> QED
    BY ONLY <1>2, <2>2, <2>3, Zenon DEF Up
<1>3. CASE ~Both
  <2>1. wire' = wire
    BY <1>3, EndsCount DEF SendFrame, WireType
  <2> QED
    BY ONLY <1>1, <1>3, <2>1, Zenon DEF Up
<1> QED
  BY <1>2, <1>3

LEMMA SendDown ==
    ASSUME WireType, NEW f, SendFrame(2, f)
    PROVE  Down(f)
<1>1. wire = <<wire[1], wire[2]>>
  BY DEF WireType
<1>2. CASE Both
  <2>1. wire' = [wire EXCEPT ![2] = Append(wire[2], f)]
    BY <1>2, EndsCount DEF SendFrame, WireType
  <2>2. wire' = <<wire[1], Append(wire[2], f)>>
    BY ONLY <1>1, <2>1, PairReplaced, Zenon
  <2>3. wire'[2] = Append(wire[2], f)
    BY ONLY <2>2
  <2> QED
    BY ONLY <1>2, <2>2, <2>3, Zenon DEF Down
<1>3. CASE ~Both
  <2>1. wire' = wire
    BY <1>3, EndsCount DEF SendFrame, WireType
  <2> QED
    BY ONLY <1>1, <1>3, <2>1, Zenon DEF Down
<1> QED
  BY <1>2, <1>3

LEMMA TakeUp ==
    ASSUME WireType, wire[1] # <<>>, wire' = [wire EXCEPT ![1] = Tail(@)]
    PROVE  UpTaken
<1>1. wire = <<wire[1], wire[2]>>
  BY DEF WireType
<1>2. wire' = [wire EXCEPT ![1] = Tail(wire[1])]
  OBVIOUS
<1> QED
  BY ONLY <1>1, <1>2, PairReplaced, wire[1] # <<>>, Zenon DEF UpTaken

\* The same place, or another, with the rest of the state as it was.
ClientGoes(place) ==
    /\ bc'.pc = place /\ bc'.opened = bc.opened /\ bc'.sent = bc.sent /\ bc'.ready = bc.ready
ClientTurns(left) ==
    /\ bc'.pc = (IF left = {} THEN "poll" ELSE "reports") /\ bc'.ready = left
    /\ bc'.opened = bc.opened /\ bc'.sent = bc.sent
HostGoes(place) ==
    /\ bh'.pc = place /\ bh'.got = bh.got /\ bh'.count = bh.count /\ bh'.devices = bh.devices
    /\ bh'.ready = bh.ready
HostGone ==
    /\ bh'.pc = "exit" /\ bh'.got = bh.got /\ bh'.devices = 0 /\ bh'.ready = bh.ready
    /\ ends' = ends \ {"host"}
HostTurns(left) ==
    /\ bh'.pc \in (IF left # {} THEN {"events"} ELSE {"poll", "destroy"})
    /\ bh'.ready = left /\ bh'.got = bh.got /\ bh'.count = bh.count /\ bh'.devices = bh.devices
Reported == UNCHANGED <<pen, made, read, injected>>
Evented == UNCHANGED <<kernel, asked, answers>>

LEMMA OpenHidrawDoes ==
    ASSUME BridgeClientType, NEW ok \in BOOLEAN, OpenHidraw(ok)
    PROVE  /\ bc.pc = "open" /\ bc'.sent = bc.sent /\ bc'.ready = bc.ready
           /\ \/ bc'.pc = "open" /\ bc'.opened = bc.opened + 1 /\ tablets[bc.opened + 1] = tablets[1]
              \/ bc'.pc = "exit" /\ bc'.opened = bc.opened
           /\ bh' = bh /\ wire' = wire /\ ends' = ends /\ Reported /\ Evented /\ tablets' = tablets
<1> QED
  BY DEF BridgeClientType, OpenHidraw, SameTablet, Reported, Evented, deviceVars

LEMMA GrabTabletDoes ==
    ASSUME BridgeClientType, NEW ok \in BOOLEAN, GrabTablet(ok)
    PROVE  /\ bc.pc = "open" /\ bc.opened = Len(tablets)
           /\ ClientGoes("connect") \/ ClientGoes("exit")
           /\ bh' = bh /\ wire' = wire /\ ends' = ends /\ Reported /\ Evented /\ tablets' = tablets
<1> QED
  BY DEF BridgeClientType, GrabTablet, ClientGoes, Reported, Evented, deviceVars

LEMMA ConnectTcpDoes ==
    ASSUME BridgeClientType, BridgeHostType, NEW ok \in BOOLEAN, ConnectTcp(ok)
    PROVE  /\ bc.pc = "connect" /\ wire' = wire /\ Reported /\ Evented /\ tablets' = tablets
           /\ \/ bh.pc = "listen" /\ ClientGoes("attach") /\ HostGoes("device")
                 /\ ends' = {"client", "host"}
              \/ ClientGoes("exit") /\ bh' = bh /\ ends' = ends \ {"client"}
<1> QED
  BY DEF BridgeClientType, BridgeHostType, ConnectTcp, ClientLeaves, ClientAt, ClientGoes, HostGoes, Reported, Evented, deviceVars

LEMMA AttachDoes ==
    ASSUME BridgeClientType, WireType, Attach
    PROVE  /\ bc.pc = "attach" /\ bh' = bh /\ Reported /\ Evented /\ tablets' = tablets
           /\ \/ /\ Up(IF bc.sent = 0 THEN Frame("device", 0, 0, Len(tablets))
                       ELSE Frame("descriptor", bc.sent, 0, tablets[bc.sent]))
                 /\ bc'.opened = bc.opened /\ bc'.sent = bc.sent + 1 /\ bc'.ready = bc.ready
                 /\ bc'.pc = (IF bc.sent = Len(tablets) THEN "poll" ELSE "attach")
                 /\ ends' = ends
              \/ /\ ClientGoes("exit") /\ wire' = wire
                 /\ ends' = ends \ {"client"}
<1>1. CASE SendFrame(1, IF bc.sent = 0 THEN Frame("device", 0, 0, Len(tablets))
                          ELSE Frame("descriptor", bc.sent, 0, tablets[bc.sent])) /\ ends' = ends
           /\ bc' = [bc EXCEPT !.sent = @ + 1,
                              !.pc = IF bc.sent = Len(tablets) THEN "poll" ELSE @]
  <2>1. Up(IF bc.sent = 0 THEN Frame("device", 0, 0, Len(tablets))
                       ELSE Frame("descriptor", bc.sent, 0, tablets[bc.sent]))
    BY <1>1, SendUp
  <2>2. /\ bc'.opened = bc.opened /\ bc'.sent = bc.sent + 1 /\ bc'.ready = bc.ready
        /\ bc'.pc = (IF bc.sent = Len(tablets) THEN "poll" ELSE "attach")
    BY <1>1 DEF BridgeClientType, Attach
  <2> QED
    BY <1>1, <2>1, <2>2, Zenon DEF Attach, Reported, Evented, deviceVars
<1>2. CASE ClientLeaves(5) /\ wire' = wire
  BY <1>2 DEF BridgeClientType, Attach, ClientLeaves, ClientGoes, Reported, Evented, deviceVars
<1> QED
  BY <1>1, <1>2, Zenon DEF Attach

LEMMA ClientPollDoes ==
    ASSUME BridgeClientType, ClientPoll
    PROVE  /\ bc.pc = "poll" /\ bc'.opened = bc.opened /\ bc'.sent = bc.sent
           /\ \/ bc'.pc = "detach" /\ bc'.ready = bc.ready
              \/ /\ bc'.ready = {i \in Interfaces : pen[i] # <<>>}
                 /\ \/ bc'.pc = "frame" /\ wire[2] # <<>>
                    \/ bc'.pc = "reports" /\ bc'.ready # {}
           /\ bh' = bh /\ wire' = wire /\ ends' = ends /\ Reported /\ Evented /\ tablets' = tablets
<1> QED
  BY DEF BridgeClientType, ClientPoll, ClientAt, Reported, Evented, deviceVars

LEMMA ClientFrameDoes ==
    ASSUME BridgeClientType, WireType, ClientPhase, ClientFrame
    PROVE  /\ bc.pc = "frame" /\ wire[2] # <<>> /\ wire' = <<wire'[1], Tail(wire[2])>>
           /\ \/ wire'[1] = wire[1]
              \/ /\ Head(wire[2]).type # "output" /\ "host" \in ends
                 /\ wire'[1] = Append(wire[1], Frame("reply", Head(wire[2]).itf, Head(wire[2]).tx,
                                                     DeviceResult(Head(wire[2]))))
           /\ ClientTurns(bc.ready) \/ ClientGoes("detach")
           /\ bh' = bh /\ ends' = ends /\ Reported /\ Evented /\ tablets' = tablets
<1>1. bc.pc = "frame" /\ wire[2] # <<>> /\ wire = <<wire[1], wire[2]>>
  BY DEF ClientFrame, ClientPhase, WireType
<1>2. ASSUME ToReports(bc.ready) PROVE ClientTurns(bc.ready)
  BY <1>2 DEF ToReports, ClientTurns, BridgeClientType
<1>3. ASSUME ClientAt("detach") PROVE ClientGoes("detach")
  BY <1>3 DEF ClientAt, ClientGoes, BridgeClientType
<1>4. ASSUME wire' = [wire EXCEPT ![2] = Tail(@)]
      PROVE  wire' = <<wire'[1], Tail(wire[2])>> /\ wire'[1] = wire[1]
  <2>1. wire' = [wire EXCEPT ![2] = Tail(wire[2])]
    BY <1>4
  <2>2. wire' = <<wire[1], Tail(wire[2])>>
    BY ONLY <1>1, <2>1, PairReplaced, Zenon
  <2>3. wire'[1] = wire[1]
    BY ONLY <2>2
  <2> QED
    BY ONLY <2>2, <2>3, Zenon
<1>5. ASSUME NEW r, wire' = <<Append(wire[1], r), Tail(wire[2])>>
      PROVE  wire' = <<wire'[1], Tail(wire[2])>> /\ wire'[1] = Append(wire[1], r)
  BY ONLY <1>5
<1> QED
  BY <1>1, <1>2, <1>3, <1>4, <1>5, Zenon DEF ClientFrame, Reported, Evented, deviceVars

LEMMA ForwardReportDoes ==
    ASSUME BridgeType, ClientPhase, ForwardReport
    PROVE  \E i \in Interfaces :
             /\ bc.pc = "reports" /\ i \in bc.ready /\ pen[i] # <<>>
             /\ Up(Frame("input", i, 0, Head(pen[i])))
             /\ pen' = [pen EXCEPT ![i] = Tail(pen[i])]
             /\ read' = [read EXCEPT ![i] = Append(read[i], Head(pen[i]))]
             /\ ClientTurns(bc.ready \ {i}) \/ ClientTurns({})
             /\ bh' = bh /\ ends' = ends /\ made' = made /\ injected' = injected /\ Evented
             /\ tablets' = tablets
<1> DEFINE i == Min(bc.ready)
<1>1. bc.ready # {} /\ bc.pc = "reports" /\ \A j \in bc.ready : pen[j] # <<>>
  BY DEF ForwardReport, ClientPhase
<1>2. bc.ready \subseteq Interfaces /\ bc.ready \subseteq Nat
  BY DEF BridgeType, BridgeClientType, Interfaces
<1>3. i \in bc.ready
  BY ONLY <1>1, <1>2, MinLeast, Zenon
<1> HIDE DEF i
<1>4. /\ SendFrame(1, Frame("input", i, 0, Head(pen[i])))
      /\ pen' = [pen EXCEPT ![i] = Tail(@)]
      /\ read' = [read EXCEPT ![i] = Append(@, Head(pen[i]))]
      /\ ToReports(bc.ready \ {i}) \/ ToReports({})
      /\ bh' = bh /\ ends' = ends /\ made' = made /\ injected' = injected /\ Evented
      /\ tablets' = tablets
  BY DEF ForwardReport, i, Evented
<1>5. Up(Frame("input", i, 0, Head(pen[i])))
  BY <1>4, SendUp DEF BridgeType
<1>6. ClientTurns(bc.ready \ {i}) \/ ClientTurns({})
  BY <1>4 DEF BridgeType, BridgeClientType, ToReports, ClientTurns
<1>7. pen' = [pen EXCEPT ![i] = Tail(pen[i])] /\ read' = [read EXCEPT ![i] = Append(read[i], Head(pen[i]))]
  BY ONLY <1>4
<1> QED
  BY ONLY <1>1, <1>2, <1>3, <1>4, <1>5, <1>6, <1>7, Zenon

LEMMA DetachDoes ==
    ASSUME BridgeClientType, WireType, Detach
    PROVE  /\ bc.pc = "detach" /\ Up(Frame("detach", 0, 0, 0)) /\ ClientGoes("exit")
           /\ ends' = ends \ {"client"} /\ bh' = bh /\ Reported /\ Evented /\ tablets' = tablets
<1>1. Up(Frame("detach", 0, 0, 0))
  BY SendUp DEF Detach
<1>2. ClientGoes("exit")
  BY DEF BridgeClientType, Detach, ClientLeaves, ClientGoes
<1> QED
  BY <1>1, <1>2, Zenon DEF Detach, ClientLeaves, Reported, Evented, deviceVars

LEMMA HostLeavesDoes ==
    ASSUME BridgeHostType, NEW n, HostLeaves(n)
    PROVE  HostGone
<1> QED
  BY DEF BridgeHostType, HostLeaves, HostGone

LEMMA ListenTcpDoes ==
    ASSUME BridgeHostType, NEW ok \in BOOLEAN, ListenTcp(ok)
    PROVE  /\ bh.pc = "start" /\ (HostGoes("listen") \/ HostGoes("exit"))
           /\ bc' = bc /\ wire' = wire /\ ends' = ends /\ Reported /\ Evented /\ tablets' = tablets
<1> QED
  BY DEF BridgeHostType, ListenTcp, HostGoes, Reported, Evented, deviceVars

LEMMA AcceptFailsDoes ==
    ASSUME BridgeHostType, AcceptFails
    PROVE  /\ bh.pc = "listen" /\ HostGoes("exit")
           /\ bc' = bc /\ wire' = wire /\ ends' = ends /\ Reported /\ Evented /\ tablets' = tablets
<1> QED
  BY DEF BridgeHostType, AcceptFails, HostGoes, Reported, Evented, deviceVars

LEMMA ReceiveDeviceDoes ==
    ASSUME BridgeHostType, WireType, ReceiveDevice
    PROVE  /\ bh.pc = "device" /\ bc' = bc /\ Reported /\ Evented /\ tablets' = tablets
           /\ \/ /\ UpTaken /\ bh'.pc = "descriptors" /\ bh'.count = Head(wire[1]).data
                 /\ bh'.got = bh.got /\ bh'.devices = bh.devices /\ bh'.ready = bh.ready
                 /\ ends' = ends
              \/ HostGone /\ wire' = wire
<1>1. CASE wire[1] # <<>> /\ Head(wire[1]).data \in 1..MaxInterfaces
  <2>1. /\ bh' = [bh EXCEPT !.pc = "descriptors", !.count = Head(wire[1]).data]
        /\ wire' = [wire EXCEPT ![1] = Tail(@)] /\ ends' = ends
    BY <1>1, Zenon DEF ReceiveDevice
  <2>2. UpTaken
    BY <1>1, <2>1, TakeUp
  <2>3. /\ bh'.pc = "descriptors" /\ bh'.count = Head(wire[1]).data
        /\ bh'.got = bh.got /\ bh'.devices = bh.devices /\ bh'.ready = bh.ready
    BY <2>1 DEF BridgeHostType
  <2> QED
    BY <2>1, <2>2, <2>3, Zenon DEF ReceiveDevice, Reported, Evented, deviceVars
<1>2. CASE HostLeaves(5) /\ wire' = wire
  BY <1>2, HostLeavesDoes, Zenon DEF ReceiveDevice, Reported, Evented, deviceVars
<1> QED
  BY <1>1, <1>2, Zenon DEF ReceiveDevice

LEMMA ReceiveDescriptorDoes ==
    ASSUME BridgeHostType, WireType, ReceiveDescriptor
    PROVE  /\ bh.pc = "descriptors" /\ bc' = bc /\ Reported /\ Evented /\ tablets' = tablets
           /\ \/ /\ UpTaken
                 /\ bh'.pc = (IF Len(bh.got) + 1 = bh.count THEN "create" ELSE "descriptors")
                 /\ bh'.got = Append(bh.got, <<Head(wire[1]).itf, Head(wire[1]).data>>)
                 /\ bh'.count = bh.count /\ bh'.devices = bh.devices /\ bh'.ready = bh.ready
                 /\ ends' = ends
              \/ HostGone /\ wire' = wire
<1>1. CASE wire[1] # <<>> /\ Head(wire[1]).type = "descriptor" /\ Head(wire[1]).itf <= bh.count
  <2>1. /\ bh' = [bh EXCEPT !.got = Append(@, <<Head(wire[1]).itf, Head(wire[1]).data>>),
                            !.pc = IF Len(bh.got) + 1 = bh.count THEN "create" ELSE @]
        /\ wire' = [wire EXCEPT ![1] = Tail(@)] /\ ends' = ends /\ bh.pc = "descriptors"
    BY <1>1, Zenon DEF ReceiveDescriptor
  <2>2. UpTaken
    BY <1>1, <2>1, TakeUp
  <2>3. /\ bh'.pc = (IF Len(bh.got) + 1 = bh.count THEN "create" ELSE "descriptors")
        /\ bh'.got = Append(bh.got, <<Head(wire[1]).itf, Head(wire[1]).data>>)
        /\ bh'.count = bh.count /\ bh'.devices = bh.devices /\ bh'.ready = bh.ready
    BY <2>1 DEF BridgeHostType
  <2> QED
    BY <2>1, <2>2, <2>3, Zenon DEF ReceiveDescriptor, Reported, Evented, deviceVars
<1>2. CASE HostLeaves(5) /\ wire' = wire
  BY <1>2, HostLeavesDoes, Zenon DEF ReceiveDescriptor, Reported, Evented, deviceVars
<1> QED
  BY <1>1, <1>2, Zenon DEF ReceiveDescriptor

LEMMA CreateDeviceDoes ==
    ASSUME BridgeHostType, NEW ok \in BOOLEAN, CreateDevice(ok)
    PROVE  /\ bh.pc = "create" /\ bc' = bc /\ wire' = wire /\ Reported /\ Evented
           /\ tablets' = tablets
           /\ \/ /\ bh'.devices = bh.devices + 1 /\ ends' = ends
                 /\ bh'.pc = (IF bh.devices + 1 = bh.count THEN "poll" ELSE "create")
                 /\ bh'.got = bh.got /\ bh'.count = bh.count /\ bh'.ready = bh.ready
              \/ HostGone
<1>1. CASE ends' = ends /\ bh' = [bh EXCEPT !.devices = @ + 1,
                                !.pc = IF bh.devices + 1 = bh.count THEN "poll" ELSE @]
  BY <1>1 DEF BridgeHostType, CreateDevice, Reported, Evented, deviceVars
<1>2. CASE HostLeaves(5) \/ HostLeaves(6)
  BY <1>2, HostLeavesDoes DEF CreateDevice, Reported, Evented, deviceVars
<1> QED
  BY <1>1, <1>2, Zenon DEF CreateDevice

LEMMA HostPollDoes ==
    ASSUME BridgeHostType, HostPoll
    PROVE  /\ bh.pc = "poll" /\ bc' = bc /\ wire' = wire /\ ends' = ends /\ Reported /\ Evented
           /\ tablets' = tablets /\ bh'.got = bh.got /\ bh'.count = bh.count
           /\ bh'.devices = bh.devices
           /\ \/ bh'.pc = "destroy" /\ bh'.ready = bh.ready
              \/ /\ bh'.ready = {i \in Created : kernel[i] # <<>>}
                 /\ \/ bh'.pc = "frame" /\ wire[1] # <<>>
                    \/ bh'.pc = "events" /\ bh'.ready # {}
<1> QED
  BY DEF BridgeHostType, HostPoll, Reported, Evented, deviceVars

LEMMA HostFrameDoes ==
    ASSUME BridgeHostType, WireType, HostPhase, HostFrame
    PROVE  /\ bh.pc = "frame" /\ UpTaken /\ HostTurns(bh.ready)
           /\ injected' = Injected(Head(wire[1]))
           /\ answers' = (IF Head(wire[1]).type = "reply"
                          THEN answers \cup {<<Head(wire[1]).itf, Head(wire[1]).tx, Head(wire[1]).data>>}
                          ELSE answers)
           /\ bc' = bc /\ ends' = ends /\ pen' = pen /\ made' = made /\ read' = read
           /\ kernel' = kernel /\ asked' = asked /\ tablets' = tablets
<1>1. bh.pc = "frame" /\ wire[1] # <<>> /\ wire' = [wire EXCEPT ![1] = Tail(@)]
  BY DEF HostFrame, HostPhase
<1>2. UpTaken
  BY <1>1, TakeUp
<1>3. ToEvents(bh.ready, Head(wire[1]).type # "detach")
  BY DEF HostFrame
<1>4. HostTurns(bh.ready)
  BY <1>3 DEF ToEvents, HostTurns, BridgeHostType
<1>5. /\ injected' = Injected(Head(wire[1]))
      /\ answers' = (IF Head(wire[1]).type = "reply"
                     THEN answers \cup {<<Head(wire[1]).itf, Head(wire[1]).tx, Head(wire[1]).data>>}
                     ELSE answers)
  BY Zenon DEF HostFrame
<1> QED
  BY <1>1, <1>2, <1>4, <1>5, Zenon DEF HostFrame

LEMMA RelayEventDoes ==
    ASSUME BridgeType, HostPhase, RelayEvent
    PROVE  \E i \in Interfaces :
             /\ bh.pc = "events" /\ i \in bh.ready /\ kernel[i] # <<>>
             /\ Down(Frame(Head(kernel[i])[1], i,
                           IF Head(kernel[i])[1] = "output" THEN 0 ELSE Head(kernel[i])[2],
                           Head(kernel[i])[2]))
             /\ kernel' = [kernel EXCEPT ![i] = Tail(kernel[i])]
             /\ HostTurns(bh.ready \ {i})
             /\ bc' = bc /\ ends' = ends /\ Reported /\ asked' = asked /\ answers' = answers
             /\ tablets' = tablets
<1> DEFINE i == Min(bh.ready)
<1>1. bh.ready # {} /\ bh.pc = "events" /\ \A j \in bh.ready : kernel[j] # <<>>
  BY DEF RelayEvent, HostPhase
<1>2. bh.ready \subseteq Interfaces /\ bh.ready \subseteq Nat
  BY DEF BridgeType, BridgeHostType, Interfaces
<1>3. i \in bh.ready
  BY ONLY <1>1, <1>2, MinLeast, Zenon
<1> HIDE DEF i
<1>4. /\ SendFrame(2, Frame(Head(kernel[i])[1], i,
                           IF Head(kernel[i])[1] = "output" THEN 0 ELSE Head(kernel[i])[2],
                           Head(kernel[i])[2]))
      /\ kernel' = [kernel EXCEPT ![i] = Tail(@)]
      /\ ToEvents(bh.ready \ {i}, bh.running)
      /\ bc' = bc /\ ends' = ends /\ Reported /\ asked' = asked /\ answers' = answers
      /\ tablets' = tablets
  BY DEF RelayEvent, i, Reported
<1>5. Down(Frame(Head(kernel[i])[1], i,
                           IF Head(kernel[i])[1] = "output" THEN 0 ELSE Head(kernel[i])[2],
                           Head(kernel[i])[2]))
  BY <1>4, SendDown DEF BridgeType
<1>6. HostTurns(bh.ready \ {i})
  BY <1>4 DEF BridgeType, BridgeHostType, ToEvents, HostTurns
<1>7. kernel' = [kernel EXCEPT ![i] = Tail(kernel[i])]
  BY ONLY <1>4
<1> QED
  BY ONLY <1>1, <1>2, <1>3, <1>4, <1>5, <1>6, <1>7, Zenon

LEMMA DestroyDevicesDoes ==
    ASSUME BridgeHostType, DestroyDevices
    PROVE  bh.pc = "destroy" /\ HostGone /\ bc' = bc /\ wire' = wire /\ Reported /\ Evented /\ tablets' = tablets
<1> QED
  BY HostLeavesDoes DEF DestroyDevices, Reported, Evented, deviceVars

LEMMA PenReportsDoes ==
    ASSUME BridgeType, NEW i \in Interfaces, PenReports(i)
    PROVE  /\ made' = [made EXCEPT ![i] = made[i] + 1]
           /\ pen' = [pen EXCEPT ![i] = Append(pen[i], made[i] + 1)]
           /\ bc' = bc /\ bh' = bh /\ wire' = wire /\ ends' = ends /\ read' = read
           /\ injected' = injected /\ Evented /\ tablets' = tablets
<1> QED
  BY DEF BridgeType, ReportsType, PenReports, Evented

LEMMA KernelAsksDoes ==
    ASSUME BridgeType, NEW i \in Interfaces, NEW type \in EventTypes, KernelAsks(i, type)
    PROVE  /\ asked' = [asked EXCEPT ![i] = asked[i] + 1]
           /\ kernel' = [kernel EXCEPT ![i] = Append(kernel[i], <<type, asked[i] + 1>>)]
           /\ bc' = bc /\ bh' = bh /\ wire' = wire /\ ends' = ends /\ Reported
           /\ answers' = answers /\ tablets' = tablets
<1> QED
  BY DEF BridgeType, EventsType, KernelAsks, Reported

LEMMA PollFailsDoes ==
    ASSUME BridgeClientType, BridgeHostType, PollFails
    PROVE  /\ \/ bc.pc = "poll" /\ ClientGoes("detach") /\ bh' = bh
              \/ bh.pc = "poll" /\ HostGoes("destroy") /\ bc' = bc
           /\ wire' = wire /\ ends' = ends /\ Reported /\ Evented /\ tablets' = tablets
<1> QED
  BY DEF BridgeClientType, BridgeHostType, PollFails, ClientAt, ClientGoes, HostGoes, Reported, Evented,
         deviceVars

LEMMA KilledDoes ==
    ASSUME BridgeClientType, BridgeHostType, Killed
    PROVE  /\ \/ bc.pc # "exit" /\ ClientGoes("exit") /\ ends' = ends \ {"client"} /\ bh' = bh
              \/ bh.pc \notin {"start", "exit", "listen"} /\ HostGone /\ bc' = bc
           /\ wire' = wire /\ Reported /\ Evented /\ tablets' = tablets
<1>1. CASE bc.pc # "exit" /\ ClientLeaves(137) /\ bh' = bh
  BY <1>1 DEF BridgeClientType, Killed, ClientLeaves, HostLeaves, ClientGoes, Reported, Evented, deviceVars
<1>2. CASE bh.pc \notin {"start", "exit", "listen"} /\ HostLeaves(137) /\ bc' = bc
  BY <1>2, HostLeavesDoes DEF Killed, Reported, Evented, deviceVars
<1> QED
  BY <1>1, <1>2, Zenon DEF Killed

-----------------------------------------------------------------------------
(* Types *)

LEMMA TabletsTypeNext ==
    ASSUME TabletsType, [BridgeNext]_bridgeVars
    PROVE  tablets' = tablets /\ Interfaces' = Interfaces /\ TabletsType'
<1>1. tablets' = tablets
  BY Zenon DEF BridgeNext, ClientSteps, HostSteps, OpenHidraw, GrabTablet, ConnectTcp, Attach,
         ClientPoll, ClientFrame, ForwardReport, Detach, ReceiveDevice, ReceiveDescriptor, HostPoll,
         HostFrame, RelayEvent, DestroyDevices, ListenTcp, CreateDevice, PollFails, Killed,
         AcceptFails, PenReports, KernelAsks, bridgeVars
<1> QED
  BY <1>1 DEF TabletsType, Interfaces

SameFields == DOMAIN bc' = DOMAIN bc /\ DOMAIN bh' = DOMAIN bh

LEMMA BridgeFieldsNext ==
    ASSUME [BridgeNext]_bridgeVars
    PROVE  SameFields
<1>1. CASE Attach
  BY <1>1 DEF SameFields, Attach, ClientAt, ToReports, ClientLeaves
<1>2. CASE ClientPoll
  BY <1>2 DEF SameFields, ClientPoll, ClientAt, ToReports, ClientLeaves
<1>3. CASE ClientFrame
  BY <1>3 DEF SameFields, ClientFrame, ClientAt, ToReports, ClientLeaves
<1>4. CASE ForwardReport
  BY <1>4 DEF SameFields, ForwardReport, ClientAt, ToReports, ClientLeaves
<1>5. CASE Detach
  BY <1>5 DEF SameFields, Detach, ClientAt, ToReports, ClientLeaves
<1>6. CASE ReceiveDevice
  BY <1>6 DEF SameFields, ReceiveDevice, ToEvents, HostLeaves
<1>7. CASE ReceiveDescriptor
  BY <1>7 DEF SameFields, ReceiveDescriptor, ToEvents, HostLeaves
<1>8. CASE HostPoll
  BY <1>8 DEF SameFields, HostPoll, ToEvents, HostLeaves
<1>9. CASE HostFrame
  BY <1>9 DEF SameFields, HostFrame, ToEvents, HostLeaves
<1>10. CASE RelayEvent
  BY <1>10 DEF SameFields, RelayEvent, ToEvents, HostLeaves
<1>11. CASE DestroyDevices
  BY <1>11 DEF SameFields, DestroyDevices, ToEvents, HostLeaves
<1>12. CASE PollFails
  BY <1>12 DEF SameFields, PollFails, ClientAt, ToReports, ClientLeaves, ToEvents, HostLeaves
<1>13. CASE Killed
  BY <1>13 DEF SameFields, Killed, ClientAt, ToReports, ClientLeaves, ToEvents, HostLeaves
<1>14. CASE AcceptFails
  BY <1>14 DEF SameFields, AcceptFails, ToEvents, HostLeaves
<1>15. ASSUME NEW ok \in BOOLEAN, OpenHidraw(ok) PROVE SameFields
  BY <1>15 DEF SameFields, OpenHidraw, ClientAt, ToReports, ClientLeaves
<1>16. ASSUME NEW ok \in BOOLEAN, GrabTablet(ok) PROVE SameFields
  BY <1>16 DEF SameFields, GrabTablet, ClientAt, ToReports, ClientLeaves
<1>17. ASSUME NEW ok \in BOOLEAN, ConnectTcp(ok) PROVE SameFields
  BY <1>17 DEF SameFields, ConnectTcp, ClientAt, ToReports, ClientLeaves, ToEvents, HostLeaves
<1>18. ASSUME NEW ok \in BOOLEAN, ListenTcp(ok) PROVE SameFields
  BY <1>18 DEF SameFields, ListenTcp, ToEvents, HostLeaves
<1>19. ASSUME NEW ok \in BOOLEAN, CreateDevice(ok) PROVE SameFields
  BY <1>19 DEF SameFields, CreateDevice, ToEvents, HostLeaves
<1>20. ASSUME NEW i \in Interfaces, PenReports(i) PROVE SameFields
  BY <1>20 DEF SameFields, PenReports
<1>21. ASSUME NEW i \in Interfaces, NEW type \in EventTypes, KernelAsks(i, type) PROVE SameFields
  BY <1>21 DEF SameFields, KernelAsks
<1>22. CASE UNCHANGED bridgeVars
  BY <1>22 DEF bridgeVars, SameFields
<1> QED
  BY <1>1, <1>2, <1>3, <1>4, <1>5, <1>6, <1>7, <1>8, <1>9, <1>10, <1>11,
     <1>12, <1>13, <1>14, <1>15, <1>16, <1>17, <1>18, <1>19, <1>20, <1>21, <1>22
    DEF BridgeNext, ClientSteps, HostSteps, EventTypes

LEMMA BridgeClientTypeNext ==
    ASSUME BridgeType, ClientPhase, HostPhase, [BridgeNext]_bridgeVars
    PROVE  BridgeClientType'
<1>0. Interfaces' = Interfaces /\ tablets' = tablets
  BY TabletsTypeNext DEF BridgeType
<1>a. SameFields
  BY BridgeFieldsNext
<1>t. BridgeClientType /\ BridgeHostType /\ WireType /\ TabletsType
  BY DEF BridgeType
<1>1. CASE Attach
  BY <1>0, <1>a, <1>t, <1>1, AttachDoes DEF BridgeClientType, ClientSidePlaces, SameFields, ClientGoes, ClientTurns
<1>2. CASE ClientPoll
  BY <1>0, <1>a, <1>t, <1>2, ClientPollDoes DEF BridgeClientType, ClientSidePlaces, SameFields, ClientGoes, ClientTurns
<1>3. CASE ClientFrame
  BY <1>0, <1>a, <1>t, <1>3, ClientFrameDoes DEF BridgeClientType, ClientSidePlaces, SameFields, ClientGoes, ClientTurns
<1>4. CASE ForwardReport
  BY <1>0, <1>a, <1>t, <1>4, ForwardReportDoes DEF BridgeClientType, ClientSidePlaces, SameFields, ClientGoes, ClientTurns
<1>5. CASE Detach
  BY <1>0, <1>a, <1>t, <1>5, DetachDoes DEF BridgeClientType, ClientSidePlaces, SameFields, ClientGoes, ClientTurns
<1>6. CASE ReceiveDevice
  BY <1>0, <1>t, <1>6, ReceiveDeviceDoes DEF BridgeClientType
<1>7. CASE ReceiveDescriptor
  BY <1>0, <1>t, <1>7, ReceiveDescriptorDoes DEF BridgeClientType
<1>8. CASE HostPoll
  BY <1>0, <1>t, <1>8, HostPollDoes DEF BridgeClientType
<1>9. CASE HostFrame
  BY <1>0, <1>t, <1>9, HostFrameDoes DEF BridgeClientType
<1>10. CASE RelayEvent
  BY <1>0, <1>t, <1>10, RelayEventDoes DEF BridgeClientType
<1>11. CASE DestroyDevices
  BY <1>0, <1>t, <1>11, DestroyDevicesDoes DEF BridgeClientType
<1>12. CASE PollFails
  BY <1>0, <1>a, <1>t, <1>12, PollFailsDoes DEF BridgeClientType, ClientSidePlaces, SameFields, ClientGoes, ClientTurns
<1>13. CASE Killed
  BY <1>0, <1>a, <1>t, <1>13, KilledDoes DEF BridgeClientType, ClientSidePlaces, SameFields, ClientGoes, ClientTurns
<1>14. CASE AcceptFails
  BY <1>0, <1>t, <1>14, AcceptFailsDoes DEF BridgeClientType
<1>15. ASSUME NEW ok \in BOOLEAN, OpenHidraw(ok) PROVE BridgeClientType'
  BY <1>0, <1>a, <1>t, <1>15, OpenHidrawDoes DEF BridgeClientType, ClientSidePlaces, SameFields, ClientGoes, ClientTurns
<1>16. ASSUME NEW ok \in BOOLEAN, GrabTablet(ok) PROVE BridgeClientType'
  BY <1>0, <1>a, <1>t, <1>16, GrabTabletDoes DEF BridgeClientType, ClientSidePlaces, SameFields, ClientGoes, ClientTurns
<1>17. ASSUME NEW ok \in BOOLEAN, ConnectTcp(ok) PROVE BridgeClientType'
  BY <1>0, <1>a, <1>t, <1>17, ConnectTcpDoes DEF BridgeClientType, ClientSidePlaces, SameFields, ClientGoes, ClientTurns
<1>18. ASSUME NEW ok \in BOOLEAN, ListenTcp(ok) PROVE BridgeClientType'
  BY <1>0, <1>t, <1>18, ListenTcpDoes DEF BridgeClientType
<1>19. ASSUME NEW ok \in BOOLEAN, CreateDevice(ok) PROVE BridgeClientType'
  BY <1>0, <1>t, <1>19, CreateDeviceDoes DEF BridgeClientType
<1>20. ASSUME NEW i \in Interfaces, PenReports(i) PROVE BridgeClientType'
  BY <1>0, <1>t, <1>20, PenReportsDoes DEF BridgeClientType
<1>21. ASSUME NEW i \in Interfaces, NEW type \in EventTypes, KernelAsks(i, type) PROVE BridgeClientType'
  BY <1>0, <1>t, <1>21, KernelAsksDoes DEF BridgeClientType
<1>22. CASE UNCHANGED bridgeVars
  BY <1>0, <1>t, <1>22 DEF bridgeVars, BridgeClientType
<1> QED
  BY <1>1, <1>2, <1>3, <1>4, <1>5, <1>6, <1>7, <1>8, <1>9, <1>10, <1>11,
     <1>12, <1>13, <1>14, <1>15, <1>16, <1>17, <1>18, <1>19, <1>20, <1>21, <1>22
    DEF BridgeNext, ClientSteps, HostSteps, EventTypes

LEMMA BridgeHostTypeNext ==
    ASSUME BridgeType, ClientPhase, HostPhase, [BridgeNext]_bridgeVars
    PROVE  BridgeHostType'
<1>0. Interfaces' = Interfaces /\ tablets' = tablets
  BY TabletsTypeNext DEF BridgeType
<1>a. SameFields
  BY BridgeFieldsNext
<1>t. BridgeClientType /\ BridgeHostType /\ WireType /\ TabletsType
  BY DEF BridgeType
<1>1. CASE Attach
  BY <1>0, <1>t, <1>1, AttachDoes DEF BridgeHostType
<1>2. CASE ClientPoll
  BY <1>0, <1>t, <1>2, ClientPollDoes DEF BridgeHostType
<1>3. CASE ClientFrame
  BY <1>0, <1>t, <1>3, ClientFrameDoes DEF BridgeHostType
<1>4. CASE ForwardReport
  BY <1>0, <1>t, <1>4, ForwardReportDoes DEF BridgeHostType
<1>5. CASE Detach
  BY <1>0, <1>t, <1>5, DetachDoes DEF BridgeHostType
<1>6. CASE ReceiveDevice
  BY <1>0, <1>a, <1>t, <1>6, ReceiveDeviceDoes DEF BridgeHostType, HostSidePlaces, SameFields, HostGoes, HostGone, HostTurns
<1>7. CASE ReceiveDescriptor
  <2>1. \/ /\ UpTaken /\ bh'.pc \in HostSidePlaces
              /\ bh'.got = Append(bh.got, <<Head(wire[1]).itf, Head(wire[1]).data>>)
              /\ bh'.devices = bh.devices /\ bh'.ready = bh.ready
        \/ HostGone
    BY ONLY <1>7, <1>t, ReceiveDescriptorDoes DEF HostSidePlaces
  <2>2. CASE HostGone
    BY ONLY <1>0, <1>a, <1>t, <2>2 DEF BridgeHostType, HostSidePlaces, SameFields, HostGone
  <2>3. CASE /\ UpTaken /\ bh'.pc \in HostSidePlaces
             /\ bh'.got = Append(bh.got, <<Head(wire[1]).itf, Head(wire[1]).data>>)
             /\ bh'.devices = bh.devices /\ bh'.ready = bh.ready
    <3>1. Head(wire[1]) \in UpFrames
      BY ONLY <1>t, <2>3, TailIs DEF WireType, UpTaken
    <3>2. <<Head(wire[1]).itf, Head(wire[1]).data>> \in Nat \X FrameData
      BY ONLY <3>1 DEF UpFrames
    <3>3. bh'.got \in Seq(Nat \X FrameData)
      BY ONLY <1>t, <2>3, <3>2, AppendIn DEF BridgeHostType
    <3> QED
      BY ONLY <1>0, <1>a, <1>t, <2>3, <3>3 DEF BridgeHostType, SameFields
  <2> QED
    BY ONLY <2>1, <2>2, <2>3
<1>8. CASE HostPoll
  <2>1. Created \subseteq Interfaces
    BY <1>t DEF HostPhase, Created, Interfaces, TabletsType, BridgeHostType
  <2> QED
    BY <1>0, <1>a, <1>t, <1>8, <2>1, HostPollDoes DEF BridgeHostType, HostSidePlaces, SameFields
<1>9. CASE HostFrame
  BY <1>0, <1>a, <1>t, <1>9, HostFrameDoes DEF BridgeHostType, HostSidePlaces, SameFields, HostGoes, HostGone, HostTurns
<1>10. CASE RelayEvent
  BY <1>0, <1>a, <1>t, <1>10, RelayEventDoes DEF BridgeHostType, HostSidePlaces, SameFields, HostGoes, HostGone, HostTurns
<1>11. CASE DestroyDevices
  BY <1>0, <1>a, <1>t, <1>11, DestroyDevicesDoes DEF BridgeHostType, HostSidePlaces, SameFields, HostGoes, HostGone, HostTurns
<1>12. CASE PollFails
  BY <1>0, <1>a, <1>t, <1>12, PollFailsDoes DEF BridgeHostType, HostSidePlaces, SameFields, HostGoes, HostGone, HostTurns
<1>13. CASE Killed
  BY <1>0, <1>a, <1>t, <1>13, KilledDoes DEF BridgeHostType, HostSidePlaces, SameFields, HostGoes, HostGone, HostTurns
<1>14. CASE AcceptFails
  BY <1>0, <1>a, <1>t, <1>14, AcceptFailsDoes DEF BridgeHostType, HostSidePlaces, SameFields, HostGoes, HostGone, HostTurns
<1>15. ASSUME NEW ok \in BOOLEAN, OpenHidraw(ok) PROVE BridgeHostType'
  BY <1>0, <1>t, <1>15, OpenHidrawDoes DEF BridgeHostType
<1>16. ASSUME NEW ok \in BOOLEAN, GrabTablet(ok) PROVE BridgeHostType'
  BY <1>0, <1>t, <1>16, GrabTabletDoes DEF BridgeHostType
<1>17. ASSUME NEW ok \in BOOLEAN, ConnectTcp(ok) PROVE BridgeHostType'
  BY <1>0, <1>a, <1>t, <1>17, ConnectTcpDoes DEF BridgeHostType, HostSidePlaces, SameFields, HostGoes, HostGone, HostTurns
<1>18. ASSUME NEW ok \in BOOLEAN, ListenTcp(ok) PROVE BridgeHostType'
  BY <1>0, <1>a, <1>t, <1>18, ListenTcpDoes DEF BridgeHostType, HostSidePlaces, SameFields, HostGoes, HostGone, HostTurns
<1>19. ASSUME NEW ok \in BOOLEAN, CreateDevice(ok) PROVE BridgeHostType'
  BY <1>0, <1>a, <1>t, <1>19, CreateDeviceDoes DEF BridgeHostType, HostSidePlaces, SameFields, HostGoes, HostGone, HostTurns
<1>20. ASSUME NEW i \in Interfaces, PenReports(i) PROVE BridgeHostType'
  BY <1>0, <1>t, <1>20, PenReportsDoes DEF BridgeHostType
<1>21. ASSUME NEW i \in Interfaces, NEW type \in EventTypes, KernelAsks(i, type) PROVE BridgeHostType'
  BY <1>0, <1>t, <1>21, KernelAsksDoes DEF BridgeHostType
<1>22. CASE UNCHANGED bridgeVars
  BY <1>0, <1>t, <1>22 DEF bridgeVars, BridgeHostType
<1> QED
  BY <1>1, <1>2, <1>3, <1>4, <1>5, <1>6, <1>7, <1>8, <1>9, <1>10, <1>11,
     <1>12, <1>13, <1>14, <1>15, <1>16, <1>17, <1>18, <1>19, <1>20, <1>21, <1>22
    DEF BridgeNext, ClientSteps, HostSteps, EventTypes

LEMMA UpFramesIn ==
    \A type \in UpTypes, itf \in Nat, tx \in Nat, d \in FrameData : Frame(type, itf, tx, d) \in UpFrames
<1>1. ASSUME NEW type \in UpTypes, NEW itf \in Nat, NEW tx \in Nat, NEW d \in FrameData
      PROVE  Frame(type, itf, tx, d) \in UpFrames
  BY DEF Frame, UpFrames
<1> QED
  BY ONLY <1>1, Zenon

LEMMA Literals ==
    /\ 0 \in Nat /\ "device" \in UpTypes /\ "descriptor" \in UpTypes /\ "input" \in UpTypes
    /\ "reply" \in UpTypes /\ "detach" \in UpTypes
<1> QED
  BY DEF UpTypes

LEMMA DataIn ==
    /\ \A n \in Nat : n \in FrameData
    /\ \A t \in STRING : t \in FrameData
    /\ \A t \in STRING, i \in Nat, n \in Nat : <<t, i, n>> \in FrameData
<1> QED
  BY DEF FrameData

LEMMA UpAdds ==
    ASSUME WireType, NEW f \in UpFrames, Up(f), ends' \subseteq ends
    PROVE  WireType'
<1>1. wire'[1] \in Seq(UpFrames)
  BY AppendIn DEF WireType, Up
<1>2. wire'[2] = wire[2] /\ wire' = <<wire'[1], wire[2]>>
  BY ONLY Up(f) DEF Up
<1> QED
  BY ONLY <1>1, <1>2, WireType, ends' \subseteq ends, Zenon DEF WireType

LEMMA DownAdds ==
    ASSUME WireType, NEW f \in DownFrames, Down(f), ends' \subseteq ends
    PROVE  WireType'
<1>1. wire'[2] \in Seq(DownFrames)
  BY AppendIn DEF WireType, Down
<1>2. wire'[1] = wire[1] /\ wire' = <<wire[1], wire'[2]>>
  BY ONLY Down(f) DEF Down
<1> QED
  BY ONLY <1>1, <1>2, WireType, ends' \subseteq ends, Zenon DEF WireType

LEMMA UpTakes ==
    ASSUME WireType, UpTaken, ends' \subseteq ends
    PROVE  WireType'
<1>1. wire'[1] = Tail(wire[1]) /\ wire'[2] = wire[2] /\ wire' = <<Tail(wire[1]), wire[2]>>
  BY ONLY UpTaken DEF UpTaken
<1>2. Tail(wire[1]) \in Seq(UpFrames)
  BY ONLY WireType, UpTaken, TailIs DEF WireType, UpTaken
<1> QED
  BY ONLY <1>1, <1>2, WireType, ends' \subseteq ends, Zenon DEF WireType

LEMMA WireSame ==
    ASSUME WireType, wire' = wire, ends' \subseteq ends
    PROVE  WireType'
<1> QED
  BY DEF WireType

\* A frame that is relayed to the client names an interface.
LEMMA DownFrame ==
    ASSUME WireType, Requests, wire[2] # <<>>
    PROVE  /\ Head(wire[2]) \in DownFrames /\ Head(wire[2]).itf \in Interfaces
           /\ Head(wire[2]).data \in 1..asked[Head(wire[2]).itf]
           /\ Head(wire[2]).type # "output" => Head(wire[2]).tx = Head(wire[2]).data
<1>1. wire[2] \in Seq(DownFrames)
  BY DEF WireType
<1>2. Tail(wire[2]) \in Seq(DownFrames) /\ Len(wire[2]) \in Nat \ {0} /\ Head(wire[2]) = wire[2][1]
  BY ONLY <1>1, wire[2] # <<>>, TailIs
<1>3. wire[2][1] \in DownFrames /\ 1 \in 1..Len(wire[2])
  BY ONLY <1>1, <1>2
<1> QED
  BY ONLY <1>2, <1>3, Requests, Zenon DEF Requests

LEMMA WireTypeNext ==
    ASSUME BridgeType, ClientPhase, HostPhase, Requests, [BridgeNext]_bridgeVars
    PROVE  WireType'
<1>0. Interfaces' = Interfaces /\ tablets' = tablets
  BY TabletsTypeNext DEF BridgeType
<1>a. SameFields
  BY BridgeFieldsNext
<1>t. BridgeClientType /\ BridgeHostType /\ WireType /\ TabletsType
  BY DEF BridgeType
<1>1. CASE Attach
  <2>1. bc.sent \in Nat /\ bc.sent <= Len(tablets) /\ Len(tablets) \in Nat
    BY <1>1, <1>t, AttachDoes DEF ClientPhase, BridgeClientType, TabletsType
  <2>2. bc.sent # 0 => tablets[bc.sent] \in STRING
    BY <2>1, <1>t DEF TabletsType
  <2>3. (IF bc.sent = 0 THEN Frame("device", 0, 0, Len(tablets))
         ELSE Frame("descriptor", bc.sent, 0, tablets[bc.sent])) \in UpFrames
    <3>1. Len(tablets) \in FrameData /\ (bc.sent # 0 => tablets[bc.sent] \in FrameData)
      BY ONLY <2>1, <2>2, DataIn, Zenon
    <3>2. CASE bc.sent = 0
      BY ONLY <2>1, <3>1, <3>2, UpFramesIn, Literals, Zenon
    <3>3. CASE bc.sent # 0
      BY ONLY <2>1, <3>1, <3>3, UpFramesIn, Literals, Zenon
    <3> QED
      BY ONLY <3>2, <3>3
  <2> QED
    BY <1>1, <1>t, <2>3, AttachDoes, UpAdds, WireSame
<1>2. CASE ClientPoll
  BY <1>t, <1>2, ClientPollDoes, WireSame DEF HostGone
<1>3. CASE ClientFrame
  <2>1. /\ wire[2] # <<>> /\ wire' = <<wire'[1], Tail(wire[2])>> /\ ends' = ends
        /\ \/ wire'[1] = wire[1]
           \/ wire'[1] = Append(wire[1], Frame("reply", Head(wire[2]).itf, Head(wire[2]).tx,
                                               DeviceResult(Head(wire[2]))))
    BY <1>3, <1>t, ClientFrameDoes, Zenon
  <2>2. /\ Head(wire[2]) \in DownFrames /\ Head(wire[2]).itf \in Interfaces
    BY <1>t, <2>1, DownFrame
  <2>3. /\ Head(wire[2]).itf \in Nat /\ Head(wire[2]).tx \in Nat /\ Head(wire[2]).data \in Nat
    BY ONLY <2>2 DEF DownFrames
  <2>4. tablets[Head(wire[2]).itf] \in STRING
    BY ONLY <1>t, <2>2 DEF TabletsType, Interfaces
  <2>5. DeviceResult(Head(wire[2])) \in FrameData
    BY ONLY <2>3, <2>4, DataIn DEF DeviceResult
  <2>6. Frame("reply", Head(wire[2]).itf, Head(wire[2]).tx, DeviceResult(Head(wire[2]))) \in UpFrames
    BY ONLY <2>3, <2>5, UpFramesIn, Literals, Zenon
  <2>7. wire'[1] \in Seq(UpFrames)
    BY ONLY <1>t, <2>1, <2>6, AppendIn DEF WireType
  <2>8. Tail(wire[2]) \in Seq(DownFrames) /\ wire'[2] = Tail(wire[2])
    BY ONLY <1>t, <2>1, TailIs DEF WireType
  <2> QED
    BY ONLY <1>t, <2>1, <2>7, <2>8, Zenon DEF WireType
<1>4. CASE ForwardReport
  <2>1. PICK i \in Interfaces :
          pen[i] # <<>> /\ Up(Frame("input", i, 0, Head(pen[i]))) /\ ends' = ends
    BY <1>4, ForwardReportDoes
  <2>2. i \in Nat /\ Head(pen[i]) \in Nat
    <3>1. pen[i] \in Seq(Nat)
      BY DEF BridgeType, ReportsType
    <3> QED
      BY ONLY <2>1, <3>1 DEF Interfaces
  <2>3. Frame("input", i, 0, Head(pen[i])) \in UpFrames
    <3>1. Head(pen[i]) \in FrameData
      BY ONLY <2>2, DataIn, Zenon
    <3> QED
      BY ONLY <2>2, <3>1, UpFramesIn, Literals, Zenon
  <2> QED
    BY <1>t, <2>1, <2>3, UpAdds
<1>5. CASE Detach
  <2>1. Frame("detach", 0, 0, 0) \in UpFrames
    <3>1. 0 \in FrameData
      BY ONLY DataIn
    <3> QED
      BY ONLY <3>1, UpFramesIn, Literals, Zenon
  <2> QED
    BY <1>5, <1>t, <2>1, UpAdds, DetachDoes
<1>6. CASE ReceiveDevice
  BY <1>t, <1>6, ReceiveDeviceDoes, UpTakes, WireSame DEF HostGone
<1>7. CASE ReceiveDescriptor
  BY <1>t, <1>7, ReceiveDescriptorDoes, UpTakes, WireSame DEF HostGone
<1>8. CASE HostPoll
  BY <1>t, <1>8, HostPollDoes, WireSame DEF HostGone
<1>9. CASE HostFrame
  BY <1>t, <1>9, HostFrameDoes, UpTakes, WireSame DEF HostGone
<1>10. CASE RelayEvent
  <2>1. PICK i \in Interfaces :
          /\ kernel[i] # <<>> /\ ends' = ends
          /\ Down(Frame(Head(kernel[i])[1], i,
                           IF Head(kernel[i])[1] = "output" THEN 0 ELSE Head(kernel[i])[2],
                           Head(kernel[i])[2]))
    BY <1>10, RelayEventDoes
  <2>2. i \in Nat /\ Head(kernel[i]) \in Events
    <3>1. kernel[i] \in Seq(Events)
      BY DEF BridgeType, EventsType
    <3> QED
      BY ONLY <2>1, <3>1 DEF Interfaces
  <2>3. Head(kernel[i])[1] \in EventTypes /\ Head(kernel[i])[2] \in Nat
    BY ONLY <2>2 DEF Events
  <2>4. Frame(Head(kernel[i])[1], i,
              IF Head(kernel[i])[1] = "output" THEN 0 ELSE Head(kernel[i])[2],
              Head(kernel[i])[2]) \in DownFrames
    BY ONLY <2>2, <2>3 DEF Frame, DownFrames
  <2> QED
    BY <1>t, <2>1, <2>4, DownAdds
<1>11. CASE DestroyDevices
  BY <1>t, <1>11, DestroyDevicesDoes, WireSame DEF HostGone
<1>12. CASE PollFails
  BY <1>t, <1>12, PollFailsDoes, WireSame DEF HostGone
<1>13. CASE Killed
  BY <1>t, <1>13, KilledDoes, WireSame DEF HostGone
<1>14. CASE AcceptFails
  BY <1>t, <1>14, AcceptFailsDoes, WireSame DEF HostGone
<1>15. ASSUME NEW ok \in BOOLEAN, OpenHidraw(ok) PROVE WireType'
  BY <1>t, <1>15, OpenHidrawDoes, WireSame DEF HostGone
<1>16. ASSUME NEW ok \in BOOLEAN, GrabTablet(ok) PROVE WireType'
  BY <1>t, <1>16, GrabTabletDoes, WireSame DEF HostGone
<1>17. ASSUME NEW ok \in BOOLEAN, ConnectTcp(ok) PROVE WireType'
  <2>1. wire' = wire /\ ends' \subseteq {"client", "host"}
    BY <1>17, <1>t DEF ConnectTcp, ClientLeaves, WireType
  <2> QED
    BY <1>t, <2>1 DEF WireType
<1>18. ASSUME NEW ok \in BOOLEAN, ListenTcp(ok) PROVE WireType'
  BY <1>t, <1>18, ListenTcpDoes, WireSame DEF HostGone
<1>19. ASSUME NEW ok \in BOOLEAN, CreateDevice(ok) PROVE WireType'
  BY <1>t, <1>19, CreateDeviceDoes, WireSame DEF HostGone
<1>20. ASSUME NEW i \in Interfaces, PenReports(i) PROVE WireType'
  BY <1>t, <1>20, PenReportsDoes, WireSame DEF HostGone
<1>21. ASSUME NEW i \in Interfaces, NEW type \in EventTypes, KernelAsks(i, type) PROVE WireType'
  BY <1>t, <1>21, KernelAsksDoes, WireSame DEF HostGone
<1>22. CASE UNCHANGED bridgeVars
  BY <1>t, <1>22 DEF bridgeVars, WireType
<1> QED
  BY <1>1, <1>2, <1>3, <1>4, <1>5, <1>6, <1>7, <1>8, <1>9, <1>10, <1>11,
     <1>12, <1>13, <1>14, <1>15, <1>16, <1>17, <1>18, <1>19, <1>20, <1>21, <1>22
    DEF BridgeNext, ClientSteps, HostSteps, EventTypes

LEMMA HeadUp ==
    ASSUME WireType, wire[1] # <<>>
    PROVE  /\ Head(wire[1]) = wire[1][1] /\ 1 \in 1..Len(wire[1]) /\ Head(wire[1]) \in UpFrames
           /\ Len(wire[1]) \in Nat \ {0}
<1>1. wire[1] \in Seq(UpFrames)
  BY DEF WireType
<1>2. Len(wire[1]) \in Nat \ {0} /\ Head(wire[1]) = wire[1][1]
  BY ONLY <1>1, wire[1] # <<>>, TailIs
<1> QED
  BY ONLY <1>1, <1>2

\* The report at the head of the connection is the next one of its interface.
LEMMA NextInput ==
    ASSUME WireType, ReportsType, Addressed, Inputs, wire[1] # <<>>, Head(wire[1]).type = "input"
    PROVE  LET f == Head(wire[1])
           IN  /\ f.itf \in Interfaces /\ f.data = Len(injected[f.itf]) + 1
               /\ f.data <= Len(read[f.itf]) /\ IsInput(f, f.itf)
<1> DEFINE i == Head(wire[1]).itf
           f == wire[1][1]
<1>1. f = Head(wire[1]) /\ 1 \in 1..Len(wire[1])
  BY HeadUp
<1>2. i \in Interfaces /\ IsInput(f, i)
  BY <1>1 DEF Addressed, IsInput
<1>3. /\ f.data \in Len(injected[i]) + 1..Len(read[i])
      /\ \A d \in Len(injected[i]) + 1..f.data : \E j \in 1..1 : IsInput(wire[1][j], i) /\ wire[1][j].data = d
  <2>1. CarriesSome(wire[1], Len(injected[i]), Len(read[i]), i)
    BY ONLY <1>2, Inputs, Zenon DEF Inputs
  <2>2. \A k \in 1..Len(wire[1]) : IsInput(wire[1][k], i) =>
          /\ wire[1][k].data \in Len(injected[i]) + 1..Len(read[i])
          /\ \A d \in Len(injected[i]) + 1..wire[1][k].data :
               \E j \in 1..k : IsInput(wire[1][j], i) /\ wire[1][j].data = d
    BY ONLY <2>1 DEF CarriesSome
  <2> QED
    BY ONLY <1>1, <1>2, <2>2, Zenon
<1>4. Len(injected[i]) \in Nat /\ Len(read[i]) \in Nat
  BY <1>2 DEF ReportsType
<1>5. f.data \in Int /\ Len(injected[i]) + 1 \in Len(injected[i]) + 1..f.data /\ f.data <= Len(read[i])
  BY ONLY <1>3, <1>4
<1>6. PICK j \in 1..1 : wire[1][j].data = Len(injected[i]) + 1
  BY ONLY <1>3, <1>5
<1>7. j = 1
  BY ONLY <1>6
<1> QED
  BY ONLY <1>1, <1>2, <1>5, <1>6, <1>7

LEMMA ReportsTypeNext ==
    ASSUME BridgeType, ClientPhase, HostPhase, Addressed, Inputs, [BridgeNext]_bridgeVars
    PROVE  ReportsType'
<1>0. Interfaces' = Interfaces /\ tablets' = tablets
  BY TabletsTypeNext DEF BridgeType
<1>a. SameFields
  BY BridgeFieldsNext
<1>t. BridgeClientType /\ BridgeHostType /\ WireType /\ TabletsType
  BY DEF BridgeType
<1>r. ReportsType
  BY DEF BridgeType
<1>1. CASE Attach
  BY <1>0, <1>t, <1>r, <1>1, AttachDoes DEF ReportsType, Reported
<1>2. CASE ClientPoll
  BY <1>0, <1>t, <1>r, <1>2, ClientPollDoes DEF ReportsType, Reported
<1>3. CASE ClientFrame
  BY <1>0, <1>t, <1>r, <1>3, ClientFrameDoes DEF ReportsType, Reported
<1>4. CASE ForwardReport
  <2>1. PICK i \in Interfaces :
          /\ pen[i] # <<>> /\ pen' = [pen EXCEPT ![i] = Tail(pen[i])]
          /\ read' = [read EXCEPT ![i] = Append(read[i], Head(pen[i]))]
          /\ made' = made /\ injected' = injected
    BY <1>4, ForwardReportDoes
  <2>2. Tail(pen[i]) \in Seq(Nat) /\ Append(read[i], Head(pen[i])) \in Seq(Nat)
    <3>1. pen[i] \in Seq(Nat) /\ read[i] \in Seq(Nat)
      BY <1>r DEF ReportsType
    <3>2. Tail(pen[i]) \in Seq(Nat) /\ Head(pen[i]) \in Nat
      BY ONLY <2>1, <3>1
    <3> QED
      BY ONLY <3>1, <3>2, AppendIn
  <2> QED
    BY ONLY <1>0, <1>r, <2>1, <2>2 DEF ReportsType
<1>5. CASE Detach
  BY <1>0, <1>t, <1>r, <1>5, DetachDoes DEF ReportsType, Reported
<1>6. CASE ReceiveDevice
  BY <1>0, <1>t, <1>r, <1>6, ReceiveDeviceDoes DEF ReportsType, Reported
<1>7. CASE ReceiveDescriptor
  BY <1>0, <1>t, <1>r, <1>7, ReceiveDescriptorDoes DEF ReportsType, Reported
<1>8. CASE HostPoll
  BY <1>0, <1>t, <1>r, <1>8, HostPollDoes DEF ReportsType, Reported
<1>9. CASE HostFrame
  <2>1. /\ wire[1] # <<>> /\ injected' = Injected(Head(wire[1]))
        /\ pen' = pen /\ made' = made /\ read' = read
    BY <1>9, <1>t, HostFrameDoes DEF UpTaken
  <2>2. CASE Head(wire[1]).type # "input"
    BY ONLY <1>0, <1>r, <2>1, <2>2 DEF ReportsType, Injected
  <2>3. CASE Head(wire[1]).type = "input"
    <3> DEFINE i == Head(wire[1]).itf
               d == Head(wire[1]).data
    <3>1. i \in Interfaces /\ d = Len(injected[i]) + 1
      BY <1>t, <1>r, <2>1, <2>3, NextInput
    <3>4. injected' = [injected EXCEPT ![i] = Append(injected[i], d)]
      BY ONLY <2>1, <2>3 DEF Injected
    <3> HIDE DEF i, d
    <3>2. injected[i] \in Seq(Nat) /\ d \in Nat
      BY ONLY <1>r, <3>1 DEF ReportsType
    <3>3. Append(injected[i], d) \in Seq(Nat)
      BY ONLY <3>2, AppendIn
    <3> QED
      BY ONLY <1>0, <1>r, <2>1, <3>1, <3>3, <3>4 DEF ReportsType
  <2> QED
    BY <2>2, <2>3
<1>10. CASE RelayEvent
  BY <1>0, <1>t, <1>r, <1>10, RelayEventDoes DEF ReportsType, Reported
<1>11. CASE DestroyDevices
  BY <1>0, <1>t, <1>r, <1>11, DestroyDevicesDoes DEF ReportsType, Reported
<1>12. CASE PollFails
  BY <1>0, <1>t, <1>r, <1>12, PollFailsDoes DEF ReportsType, Reported
<1>13. CASE Killed
  BY <1>0, <1>t, <1>r, <1>13, KilledDoes DEF ReportsType, Reported
<1>14. CASE AcceptFails
  BY <1>0, <1>t, <1>r, <1>14, AcceptFailsDoes DEF ReportsType, Reported
<1>15. ASSUME NEW ok \in BOOLEAN, OpenHidraw(ok) PROVE ReportsType'
  BY <1>0, <1>t, <1>r, <1>15, OpenHidrawDoes DEF ReportsType, Reported
<1>16. ASSUME NEW ok \in BOOLEAN, GrabTablet(ok) PROVE ReportsType'
  BY <1>0, <1>t, <1>r, <1>16, GrabTabletDoes DEF ReportsType, Reported
<1>17. ASSUME NEW ok \in BOOLEAN, ConnectTcp(ok) PROVE ReportsType'
  BY <1>0, <1>t, <1>r, <1>17, ConnectTcpDoes DEF ReportsType, Reported
<1>18. ASSUME NEW ok \in BOOLEAN, ListenTcp(ok) PROVE ReportsType'
  BY <1>0, <1>t, <1>r, <1>18, ListenTcpDoes DEF ReportsType, Reported
<1>19. ASSUME NEW ok \in BOOLEAN, CreateDevice(ok) PROVE ReportsType'
  BY <1>0, <1>t, <1>r, <1>19, CreateDeviceDoes DEF ReportsType, Reported
<1>20. ASSUME NEW i \in Interfaces, PenReports(i) PROVE ReportsType'
  <2>1. pen[i] \in Seq(Nat) /\ made[i] + 1 \in Nat
    BY <1>r DEF ReportsType
  <2>2. Append(pen[i], made[i] + 1) \in Seq(Nat)
    BY ONLY <2>1, AppendIn
  <2>3. /\ made' = [made EXCEPT ![i] = made[i] + 1]
        /\ pen' = [pen EXCEPT ![i] = Append(pen[i], made[i] + 1)]
        /\ read' = read /\ injected' = injected
    BY <1>20, PenReportsDoes
  <2> QED
    BY ONLY <1>0, <1>r, <2>1, <2>2, <2>3 DEF ReportsType
<1>21. ASSUME NEW i \in Interfaces, NEW type \in EventTypes, KernelAsks(i, type) PROVE ReportsType'
  BY <1>0, <1>t, <1>r, <1>21, KernelAsksDoes DEF ReportsType, Reported
<1>22. CASE UNCHANGED bridgeVars
  BY <1>0, <1>r, <1>22 DEF bridgeVars, deviceVars, ReportsType
<1> QED
  BY <1>1, <1>2, <1>3, <1>4, <1>5, <1>6, <1>7, <1>8, <1>9, <1>10, <1>11,
     <1>12, <1>13, <1>14, <1>15, <1>16, <1>17, <1>18, <1>19, <1>20, <1>21, <1>22
    DEF BridgeNext, ClientSteps, HostSteps, EventTypes

LEMMA EventsTypeNext ==
    ASSUME BridgeType, ClientPhase, HostPhase, Addressed, Inputs, [BridgeNext]_bridgeVars
    PROVE  EventsType'
<1>0. Interfaces' = Interfaces /\ tablets' = tablets
  BY TabletsTypeNext DEF BridgeType
<1>a. SameFields
  BY BridgeFieldsNext
<1>t. BridgeClientType /\ BridgeHostType /\ WireType /\ TabletsType
  BY DEF BridgeType
<1>e. EventsType
  BY DEF BridgeType
<1>1. CASE Attach
  BY <1>0, <1>t, <1>e, <1>1, AttachDoes DEF EventsType, Evented
<1>2. CASE ClientPoll
  BY <1>0, <1>t, <1>e, <1>2, ClientPollDoes DEF EventsType, Evented
<1>3. CASE ClientFrame
  BY <1>0, <1>t, <1>e, <1>3, ClientFrameDoes DEF EventsType, Evented
<1>4. CASE ForwardReport
  <2>1. kernel' = kernel /\ asked' = asked
    BY <1>4, ForwardReportDoes DEF Evented
  <2> QED
    BY <1>0, <1>e, <2>1 DEF EventsType
<1>5. CASE Detach
  BY <1>0, <1>t, <1>e, <1>5, DetachDoes DEF EventsType, Evented
<1>6. CASE ReceiveDevice
  BY <1>0, <1>t, <1>e, <1>6, ReceiveDeviceDoes DEF EventsType, Evented
<1>7. CASE ReceiveDescriptor
  BY <1>0, <1>t, <1>e, <1>7, ReceiveDescriptorDoes DEF EventsType, Evented
<1>8. CASE HostPoll
  BY <1>0, <1>t, <1>e, <1>8, HostPollDoes DEF EventsType, Evented
<1>9. CASE HostFrame
  BY <1>0, <1>t, <1>e, <1>9, HostFrameDoes DEF EventsType, Evented
<1>10. CASE RelayEvent
  <2>1. PICK i \in Interfaces :
          kernel[i] # <<>> /\ kernel' = [kernel EXCEPT ![i] = Tail(kernel[i])] /\ asked' = asked
    BY <1>10, RelayEventDoes
  <2>2. kernel[i] \in Seq(Events)
    BY <1>e DEF EventsType
  <2>3. Tail(kernel[i]) \in Seq(Events)
    BY ONLY <2>1, <2>2, TailIs
  <2> QED
    BY ONLY <1>0, <1>e, <2>1, <2>3 DEF EventsType
<1>11. CASE DestroyDevices
  BY <1>0, <1>t, <1>e, <1>11, DestroyDevicesDoes DEF EventsType, Evented
<1>12. CASE PollFails
  BY <1>0, <1>t, <1>e, <1>12, PollFailsDoes DEF EventsType, Evented
<1>13. CASE Killed
  BY <1>0, <1>t, <1>e, <1>13, KilledDoes DEF EventsType, Evented
<1>14. CASE AcceptFails
  BY <1>0, <1>t, <1>e, <1>14, AcceptFailsDoes DEF EventsType, Evented
<1>15. ASSUME NEW ok \in BOOLEAN, OpenHidraw(ok) PROVE EventsType'
  BY <1>0, <1>t, <1>e, <1>15, OpenHidrawDoes DEF EventsType, Evented
<1>16. ASSUME NEW ok \in BOOLEAN, GrabTablet(ok) PROVE EventsType'
  BY <1>0, <1>t, <1>e, <1>16, GrabTabletDoes DEF EventsType, Evented
<1>17. ASSUME NEW ok \in BOOLEAN, ConnectTcp(ok) PROVE EventsType'
  BY <1>0, <1>t, <1>e, <1>17, ConnectTcpDoes DEF EventsType, Evented
<1>18. ASSUME NEW ok \in BOOLEAN, ListenTcp(ok) PROVE EventsType'
  BY <1>0, <1>t, <1>e, <1>18, ListenTcpDoes DEF EventsType, Evented
<1>19. ASSUME NEW ok \in BOOLEAN, CreateDevice(ok) PROVE EventsType'
  BY <1>0, <1>t, <1>e, <1>19, CreateDeviceDoes DEF EventsType, Evented
<1>20. ASSUME NEW i \in Interfaces, PenReports(i) PROVE EventsType'
  BY <1>0, <1>t, <1>e, <1>20, PenReportsDoes DEF EventsType, Evented
<1>21. ASSUME NEW i \in Interfaces, NEW type \in EventTypes, KernelAsks(i, type) PROVE EventsType'
  <2>1. /\ asked' = [asked EXCEPT ![i] = asked[i] + 1]
        /\ kernel' = [kernel EXCEPT ![i] = Append(kernel[i], <<type, asked[i] + 1>>)]
    BY <1>21, KernelAsksDoes
  <2>2. asked[i] + 1 \in Nat /\ kernel[i] \in Seq(Events)
    BY <1>e DEF EventsType
  <2>3. <<type, asked[i] + 1>> \in Events
    BY ONLY <2>2, type \in EventTypes DEF Events
  <2>4. Append(kernel[i], <<type, asked[i] + 1>>) \in Seq(Events)
    BY ONLY <2>2, <2>3, AppendIn
  <2> QED
    BY ONLY <1>0, <1>e, <2>1, <2>2, <2>4 DEF EventsType
<1>22. CASE UNCHANGED bridgeVars
  BY <1>0, <1>e, <1>22 DEF bridgeVars, deviceVars, EventsType
<1> QED
  BY <1>1, <1>2, <1>3, <1>4, <1>5, <1>6, <1>7, <1>8, <1>9, <1>10, <1>11,
     <1>12, <1>13, <1>14, <1>15, <1>16, <1>17, <1>18, <1>19, <1>20, <1>21, <1>22
    DEF BridgeNext, ClientSteps, HostSteps, EventTypes

LEMMA OneModelNext ==
    ASSUME BridgeType, ClientPhase, HostPhase, OneModel, [BridgeNext]_bridgeVars
    PROVE  OneModel'
<1>0. Interfaces' = Interfaces /\ tablets' = tablets
  BY TabletsTypeNext DEF BridgeType
<1>a. SameFields
  BY BridgeFieldsNext
<1>t. BridgeClientType /\ BridgeHostType /\ WireType /\ TabletsType
  BY DEF BridgeType
<1>m. OneModel
  OBVIOUS
<1>1. CASE Attach
  BY <1>0, <1>t, <1>m, <1>1, AttachDoes DEF OneModel, ClientGoes, ClientTurns
<1>2. CASE ClientPoll
  BY <1>0, <1>t, <1>m, <1>2, ClientPollDoes DEF OneModel, ClientGoes, ClientTurns
<1>3. CASE ClientFrame
  BY <1>0, <1>t, <1>m, <1>3, ClientFrameDoes DEF OneModel, ClientGoes, ClientTurns
<1>4. CASE ForwardReport
  BY <1>0, <1>t, <1>m, <1>4, ForwardReportDoes DEF OneModel, ClientGoes, ClientTurns
<1>5. CASE Detach
  BY <1>0, <1>t, <1>m, <1>5, DetachDoes DEF OneModel, ClientGoes, ClientTurns
<1>6. CASE ReceiveDevice
  BY <1>0, <1>t, <1>m, <1>6, ReceiveDeviceDoes DEF OneModel, ClientGoes, ClientTurns
<1>7. CASE ReceiveDescriptor
  BY <1>0, <1>t, <1>m, <1>7, ReceiveDescriptorDoes DEF OneModel, ClientGoes, ClientTurns
<1>8. CASE HostPoll
  BY <1>0, <1>t, <1>m, <1>8, HostPollDoes DEF OneModel, ClientGoes, ClientTurns
<1>9. CASE HostFrame
  BY <1>0, <1>t, <1>m, <1>9, HostFrameDoes DEF OneModel, ClientGoes, ClientTurns
<1>10. CASE RelayEvent
  BY <1>0, <1>t, <1>m, <1>10, RelayEventDoes DEF OneModel, ClientGoes, ClientTurns
<1>11. CASE DestroyDevices
  BY <1>0, <1>t, <1>m, <1>11, DestroyDevicesDoes DEF OneModel, ClientGoes, ClientTurns
<1>12. CASE PollFails
  BY <1>0, <1>t, <1>m, <1>12, PollFailsDoes DEF OneModel, ClientGoes, ClientTurns
<1>13. CASE Killed
  BY <1>0, <1>t, <1>m, <1>13, KilledDoes DEF OneModel, ClientGoes, ClientTurns
<1>14. CASE AcceptFails
  BY <1>0, <1>t, <1>m, <1>14, AcceptFailsDoes DEF OneModel, ClientGoes, ClientTurns
<1>15. ASSUME NEW ok \in BOOLEAN, OpenHidraw(ok) PROVE OneModel'
  <2>1. /\ bc.pc = "open" /\ bc.opened \in Nat
        /\ \/ bc'.pc = "open" /\ bc'.opened = bc.opened + 1 /\ tablets[bc.opened + 1] = tablets[1]
           \/ bc'.pc = "exit" /\ bc'.opened = bc.opened
    BY <1>15, <1>t, OpenHidrawDoes DEF BridgeClientType
  <2> QED
    BY ONLY <1>0, <1>m, <2>1 DEF OneModel
<1>16. ASSUME NEW ok \in BOOLEAN, GrabTablet(ok) PROVE OneModel'
  BY <1>0, <1>t, <1>m, <1>16, GrabTabletDoes DEF OneModel, ClientGoes, ClientTurns
<1>17. ASSUME NEW ok \in BOOLEAN, ConnectTcp(ok) PROVE OneModel'
  BY <1>0, <1>t, <1>m, <1>17, ConnectTcpDoes DEF OneModel, ClientGoes, ClientTurns
<1>18. ASSUME NEW ok \in BOOLEAN, ListenTcp(ok) PROVE OneModel'
  BY <1>0, <1>t, <1>m, <1>18, ListenTcpDoes DEF OneModel, ClientGoes, ClientTurns
<1>19. ASSUME NEW ok \in BOOLEAN, CreateDevice(ok) PROVE OneModel'
  BY <1>0, <1>t, <1>m, <1>19, CreateDeviceDoes DEF OneModel, ClientGoes, ClientTurns
<1>20. ASSUME NEW i \in Interfaces, PenReports(i) PROVE OneModel'
  BY <1>0, <1>t, <1>m, <1>20, PenReportsDoes DEF OneModel, ClientGoes, ClientTurns
<1>21. ASSUME NEW i \in Interfaces, NEW type \in EventTypes, KernelAsks(i, type) PROVE OneModel'
  BY <1>0, <1>t, <1>m, <1>21, KernelAsksDoes DEF OneModel, ClientGoes, ClientTurns
<1>22. CASE UNCHANGED bridgeVars
  BY <1>0, <1>m, <1>22 DEF bridgeVars, OneModel
<1> QED
  BY <1>1, <1>2, <1>3, <1>4, <1>5, <1>6, <1>7, <1>8, <1>9, <1>10, <1>11,
     <1>12, <1>13, <1>14, <1>15, <1>16, <1>17, <1>18, <1>19, <1>20, <1>21, <1>22
    DEF BridgeNext, ClientSteps, HostSteps, EventTypes

LEMMA Appended ==
    ASSUME NEW S, NEW s \in Seq(S), NEW e
    PROVE  Append(s, e) # <<>>
<1>1. s \in Seq(S \cup {e}) /\ e \in S \cup {e}
  OBVIOUS
<1> QED
  BY ONLY <1>1, AppendProperties

LEMMA ClientPhaseNext ==
    ASSUME BridgeType, ClientPhase, HostPhase, [BridgeNext]_bridgeVars
    PROVE  ClientPhase'
<1>0. Interfaces' = Interfaces /\ tablets' = tablets
  BY TabletsTypeNext DEF BridgeType
<1>a. SameFields
  BY BridgeFieldsNext
<1>t. BridgeClientType /\ BridgeHostType /\ WireType /\ TabletsType
  BY DEF BridgeType
<1>c. ClientPhase
  OBVIOUS
<1>s. wire[1] \in Seq(UpFrames) /\ wire[2] \in Seq(DownFrames)
  BY <1>t DEF WireType
<1>r. ReportsType /\ EventsType
  BY DEF BridgeType
<1>1. CASE Attach
  <2>0. bc'.pc # "exit" => ends' = ends
    BY <1>1, <1>t, AttachDoes DEF ClientGoes
  <2>1. /\ bc.pc = "attach" /\ pen' = pen /\ wire'[2] = wire[2]
        /\ \/ bc'.sent = bc.sent + 1 /\ bc'.pc = (IF bc.sent = Len(tablets) THEN "poll" ELSE "attach")
           \/ bc'.pc = "exit"
    BY <1>1, <1>t, AttachDoes DEF Up, ClientGoes, Reported
  <2>2. bc.sent \in Nat /\ bc.sent <= Len(tablets) /\ Len(tablets) \in Nat
    BY ONLY <1>c, <1>t, <2>1 DEF ClientPhase, BridgeClientType, TabletsType
  <2> QED
    BY ONLY <1>0, <1>c, <2>0, <2>1, <2>2 DEF ClientPhase
<1>2. CASE ClientPoll
  BY <1>0, <1>t, <1>c, <1>2, ClientPollDoes DEF ClientPhase, ClientGoes, ClientTurns, Up, UpTaken, Reported, HostGone
<1>3. CASE ClientFrame
  BY <1>0, <1>t, <1>c, <1>3, ClientFrameDoes DEF ClientPhase, ClientGoes, ClientTurns, Up, UpTaken, Reported, HostGone
<1>4. CASE ForwardReport
  <2>1. PICK i \in Interfaces :
          /\ bc.pc = "reports" /\ i \in bc.ready /\ pen' = [pen EXCEPT ![i] = Tail(pen[i])]
          /\ ClientTurns(bc.ready \ {i}) \/ ClientTurns({})
          /\ ends' = ends
    BY <1>4, ForwardReportDoes
  <2>2. \A j \in bc.ready \ {i} : pen'[j] = pen[j]
    BY ONLY <1>t, <1>r, <2>1 DEF ReportsType, BridgeClientType
  <2>3. \A j \in bc'.ready : pen'[j] # <<>>
    BY ONLY <1>c, <2>1, <2>2 DEF ClientPhase, ClientTurns
  <2>4. bc'.pc \in {"poll", "reports"} /\ (bc'.pc = "reports" => bc'.ready # {})
    BY ONLY <2>1 DEF ClientTurns
  <2>5. "client" \in ends'
    <3>1. bc.pc \notin {"open", "connect", "exit"} => "client" \in ends
      BY ONLY <1>c, Zenon DEF ClientPhase
    <3> QED
      BY ONLY <2>1, <3>1
  <2> QED
    BY ONLY <2>3, <2>4, <2>5 DEF ClientPhase
<1>5. CASE Detach
  BY <1>0, <1>t, <1>c, <1>5, DetachDoes DEF ClientPhase, ClientGoes, ClientTurns, Up, UpTaken, Reported, HostGone
<1>6. CASE ReceiveDevice
  BY <1>0, <1>t, <1>c, <1>6, ReceiveDeviceDoes DEF ClientPhase, ClientGoes, ClientTurns, Up, UpTaken, Reported, HostGone
<1>7. CASE ReceiveDescriptor
  BY <1>0, <1>t, <1>c, <1>7, ReceiveDescriptorDoes DEF ClientPhase, ClientGoes, ClientTurns, Up, UpTaken, Reported, HostGone
<1>8. CASE HostPoll
  BY <1>0, <1>t, <1>c, <1>8, HostPollDoes DEF ClientPhase, ClientGoes, ClientTurns, Up, UpTaken, Reported, HostGone
<1>9. CASE HostFrame
  BY <1>0, <1>t, <1>c, <1>9, HostFrameDoes DEF ClientPhase, ClientGoes, ClientTurns, Up, UpTaken, Reported, HostGone
<1>10. CASE RelayEvent
  <2>1. PICK f : Down(f) /\ bc' = bc /\ ends' = ends /\ pen' = pen
    BY <1>10, RelayEventDoes DEF Reported
  <2>2. wire'[1] = wire[1] /\ (wire[2] # <<>> => wire'[2] # <<>>)
    BY ONLY <2>1, <1>s, Appended DEF Down
  <2> QED
    BY ONLY <1>0, <1>c, <2>1, <2>2 DEF ClientPhase
<1>11. CASE DestroyDevices
  BY <1>0, <1>t, <1>c, <1>11, DestroyDevicesDoes DEF ClientPhase, ClientGoes, ClientTurns, Up, UpTaken, Reported, HostGone
<1>12. CASE PollFails
  BY <1>0, <1>t, <1>c, <1>12, PollFailsDoes DEF ClientPhase, ClientGoes, ClientTurns, Up, UpTaken, Reported, HostGone
<1>13. CASE Killed
  BY <1>0, <1>t, <1>c, <1>13, KilledDoes DEF ClientPhase, ClientGoes, ClientTurns, Up, UpTaken, Reported, HostGone
<1>14. CASE AcceptFails
  BY <1>0, <1>t, <1>c, <1>14, AcceptFailsDoes DEF ClientPhase, ClientGoes, ClientTurns, Up, UpTaken, Reported, HostGone
<1>15. ASSUME NEW ok \in BOOLEAN, OpenHidraw(ok) PROVE ClientPhase'
  BY <1>0, <1>t, <1>c, <1>15, OpenHidrawDoes DEF ClientPhase, ClientGoes, ClientTurns, Up, UpTaken, Reported, HostGone
<1>16. ASSUME NEW ok \in BOOLEAN, GrabTablet(ok) PROVE ClientPhase'
  BY <1>0, <1>t, <1>c, <1>16, GrabTabletDoes DEF ClientPhase, ClientGoes, ClientTurns, Up, UpTaken, Reported, HostGone
<1>17. ASSUME NEW ok \in BOOLEAN, ConnectTcp(ok) PROVE ClientPhase'
  BY <1>0, <1>t, <1>c, <1>17, ConnectTcpDoes DEF ClientPhase, ClientGoes, ClientTurns, Up, UpTaken, Reported, HostGone
<1>18. ASSUME NEW ok \in BOOLEAN, ListenTcp(ok) PROVE ClientPhase'
  BY <1>0, <1>t, <1>c, <1>18, ListenTcpDoes DEF ClientPhase, ClientGoes, ClientTurns, Up, UpTaken, Reported, HostGone
<1>19. ASSUME NEW ok \in BOOLEAN, CreateDevice(ok) PROVE ClientPhase'
  BY <1>0, <1>t, <1>c, <1>19, CreateDeviceDoes DEF ClientPhase, ClientGoes, ClientTurns, Up, UpTaken, Reported, HostGone
<1>20. ASSUME NEW i \in Interfaces, PenReports(i) PROVE ClientPhase'
  <2>1. /\ pen' = [pen EXCEPT ![i] = Append(pen[i], made[i] + 1)]
        /\ bc' = bc /\ wire' = wire /\ ends' = ends
    BY <1>20, PenReportsDoes
  <2>2. \A j \in Interfaces : pen[j] # <<>> => pen'[j] # <<>>
    BY ONLY <1>r, <2>1, Appended DEF ReportsType
  <2>3. bc.ready \subseteq Interfaces
    BY ONLY <1>t DEF BridgeClientType
  <2>4. bc.pc \in {"reports", "frame"} => \A j \in bc.ready : pen'[j] # <<>>
    BY ONLY <1>c, <2>2, <2>3 DEF ClientPhase
  <2> QED
    BY ONLY <1>0, <1>c, <2>1, <2>4 DEF ClientPhase
<1>21. ASSUME NEW i \in Interfaces, NEW type \in EventTypes, KernelAsks(i, type) PROVE ClientPhase'
  BY <1>0, <1>t, <1>c, <1>21, KernelAsksDoes DEF ClientPhase, ClientGoes, ClientTurns, Up, UpTaken, Reported, HostGone
<1>22. CASE UNCHANGED bridgeVars
  BY <1>0, <1>c, <1>22 DEF bridgeVars, deviceVars, ClientPhase
<1> QED
  BY <1>1, <1>2, <1>3, <1>4, <1>5, <1>6, <1>7, <1>8, <1>9, <1>10, <1>11,
     <1>12, <1>13, <1>14, <1>15, <1>16, <1>17, <1>18, <1>19, <1>20, <1>21, <1>22
    DEF BridgeNext, ClientSteps, HostSteps, EventTypes

\* What the client does leaves the host's place as it is.
HostUntouched ==
    /\ bh' = bh /\ kernel' = kernel /\ ends' \subseteq ends
    /\ wire[1] # <<>> => wire'[1] # <<>>
    /\ ends = {} => wire'[1] = wire[1]

LEMMA HostKept ==
    ASSUME HostPhase, HostUntouched, tablets' = tablets
    PROVE  HostPhase'
<1>1. ends = {} => ends' = {}
  BY ONLY HostUntouched DEF HostUntouched
<1>2. Created' = Created
  BY ONLY HostUntouched DEF HostUntouched, Created
<1> QED
  BY ONLY <1>1, HostPhase, HostUntouched, tablets' = tablets DEF HostPhase, HostUntouched

LEMMA UpKeeps ==
    ASSUME WireType, NEW f, Up(f)
    PROVE  (wire[1] # <<>> => wire'[1] # <<>>) /\ (ends = {} => wire'[1] = wire[1])
<1>1. wire[1] \in Seq(UpFrames)
  BY DEF WireType
<1> QED
  BY ONLY <1>1, Up(f), Appended DEF Up, Both

LEMMA HostGonePhase ==
    ASSUME HostPhase, HostGone, tablets' = tablets, TabletsType
    PROVE  HostPhase'
<1> QED
  BY DEF HostPhase, HostGone, TabletsType

LEMMA HostPhaseNext ==
    ASSUME BridgeType, ClientPhase, HostPhase, Link, [BridgeNext]_bridgeVars
    PROVE  HostPhase'
<1>0. Interfaces' = Interfaces /\ tablets' = tablets
  BY TabletsTypeNext DEF BridgeType
<1>a. SameFields
  BY BridgeFieldsNext
<1>t. BridgeClientType /\ BridgeHostType /\ WireType /\ TabletsType
  BY DEF BridgeType
<1>h. HostPhase
  OBVIOUS
<1>s. wire[1] \in Seq(UpFrames) /\ wire[2] \in Seq(DownFrames)
  BY <1>t DEF WireType
<1>r. ReportsType /\ EventsType
  BY DEF BridgeType
<1>1. CASE Attach
  <2>1. \/ \E f : Up(f)
        \/ wire' = wire
    BY <1>1, <1>t, AttachDoes
  <2>2. bh' = bh /\ kernel' = kernel /\ ends' \subseteq ends
    BY <1>1, <1>t, AttachDoes DEF Evented
  <2> QED
    BY <1>0, <1>h, <1>t, <2>1, <2>2, UpKeeps, HostKept DEF HostUntouched
<1>2. CASE ClientPoll
  BY <1>0, <1>t, <1>h, <1>2, ClientPollDoes, HostKept DEF HostUntouched, Evented
<1>3. CASE ClientFrame
  <2>1. /\ bh' = bh /\ kernel' = kernel /\ ends' = ends
        /\ wire'[1] = wire[1] \/ (ends # {} /\ \E f : wire'[1] = Append(wire[1], f))
    BY <1>3, <1>t, ClientFrameDoes DEF Evented
  <2>2. wire[1] # <<>> => wire'[1] # <<>>
    BY ONLY <1>s, <2>1, Appended
  <2> QED
    BY <1>0, <1>h, <2>1, <2>2, HostKept DEF HostUntouched
<1>4. CASE ForwardReport
  <2>1. \/ \E f : Up(f)
        \/ wire' = wire
    BY <1>4, ForwardReportDoes
  <2>2. bh' = bh /\ kernel' = kernel /\ ends' \subseteq ends
    BY <1>4, ForwardReportDoes DEF Evented
  <2> QED
    BY <1>0, <1>h, <1>t, <2>1, <2>2, UpKeeps, HostKept DEF HostUntouched
<1>5. CASE Detach
  <2>1. \/ \E f : Up(f)
        \/ wire' = wire
    BY <1>5, <1>t, DetachDoes
  <2>2. bh' = bh /\ kernel' = kernel /\ ends' \subseteq ends
    BY <1>5, <1>t, DetachDoes DEF Evented
  <2> QED
    BY <1>0, <1>h, <1>t, <2>1, <2>2, UpKeeps, HostKept DEF HostUntouched
<1>6. CASE ReceiveDevice
  <2>1. CASE HostGone
    BY <1>0, <1>h, <1>t, <2>1, HostGonePhase
  <2>2. CASE ~HostGone
    <3>1. /\ bh.pc = "device" /\ UpTaken /\ bh'.pc = "descriptors" /\ bh'.count = Head(wire[1]).data
          /\ bh'.got = bh.got /\ bh'.devices = bh.devices
      BY <1>6, <1>t, <2>2, ReceiveDeviceDoes
    <3>2. Head(wire[1]) = wire[1][1] /\ 1 \in 1..Len(wire[1])
      BY ONLY <1>t, <3>1, HeadUp DEF UpTaken
    <3>3. Len(tablets) \in Nat \ {0}
      BY ONLY <1>t DEF TabletsType
    <3>4. Received = 0 /\ Received + 1 - 1 <= Len(tablets) /\ Received + 1 - 1 = 0
      BY ONLY <3>1, <3>3 DEF Received
    <3>5. wire[1][1] = Preamble(0)
      BY ONLY <3>1, <3>2, <3>4, Link DEF Link
    <3>6. Head(wire[1]).data = Len(tablets)
      BY ONLY <3>2, <3>5 DEF Preamble, Frame
    <3>7. bh.got = <<>> /\ bh.devices = 0
      BY ONLY <1>h, <3>1 DEF HostPhase
    <3> QED
      BY ONLY <1>0, <3>1, <3>3, <3>6, <3>7 DEF HostPhase
  <2> QED
    BY <2>1, <2>2
<1>7. CASE ReceiveDescriptor
  <2>1. CASE HostGone
    BY <1>0, <1>h, <1>t, <2>1, HostGonePhase
  <2>2. CASE ~HostGone
    <3>1. /\ bh.pc = "descriptors" /\ Len(bh'.got) = Len(bh.got) + 1
          /\ bh'.pc = (IF Len(bh.got) + 1 = bh.count THEN "create" ELSE "descriptors")
          /\ bh'.count = bh.count /\ bh'.devices = bh.devices
      BY <1>7, <1>t, <2>2, ReceiveDescriptorDoes DEF BridgeHostType
    <3>2. Len(tablets) \in Nat \ {0} /\ Len(bh.got) \in Nat
      BY ONLY <1>t DEF TabletsType, BridgeHostType
    <3>3. bh.count = Len(tablets) /\ Len(bh.got) < Len(tablets) /\ bh.devices = 0
      BY ONLY <1>h, <3>1 DEF HostPhase
    <3> QED
      BY ONLY <1>0, <3>1, <3>2, <3>3 DEF HostPhase
  <2> QED
    BY <2>1, <2>2
<1>8. CASE HostPoll
  BY <1>0, <1>t, <1>h, <1>8, HostPollDoes DEF HostPhase, HostGoes, Evented, TabletsType
<1>9. CASE HostFrame
  <2>1. bh.pc = "frame" /\ HostTurns(bh.ready) /\ kernel' = kernel
    BY <1>9, <1>t, HostFrameDoes
  <2> QED
    BY ONLY <1>0, <1>h, <2>1 DEF HostPhase, HostTurns
<1>10. CASE RelayEvent
  <2>1. PICK i \in Interfaces :
          /\ bh.pc = "events" /\ i \in bh.ready /\ kernel' = [kernel EXCEPT ![i] = Tail(kernel[i])]
          /\ HostTurns(bh.ready \ {i})
    BY <1>10, RelayEventDoes
  <2>2. \A j \in bh.ready \ {i} : kernel'[j] = kernel[j]
    BY ONLY <1>t, <1>r, <2>1 DEF EventsType, BridgeHostType
  <2>3. \A j \in bh'.ready : kernel'[j] # <<>>
    BY ONLY <1>h, <2>1, <2>2 DEF HostPhase, HostTurns
  <2> QED
    BY ONLY <1>0, <1>h, <2>1, <2>3 DEF HostPhase, HostTurns
<1>11. CASE DestroyDevices
  BY <1>0, <1>t, <1>h, <1>11, DestroyDevicesDoes, HostGonePhase
<1>12. CASE PollFails
  BY <1>0, <1>t, <1>h, <1>12, PollFailsDoes DEF HostPhase, HostGoes, Evented, TabletsType
<1>13. CASE Killed
  BY <1>0, <1>t, <1>h, <1>13, KilledDoes, HostGonePhase, HostKept DEF HostUntouched, Evented
<1>14. CASE AcceptFails
  BY <1>0, <1>t, <1>h, <1>14, AcceptFailsDoes DEF HostPhase, HostGoes, Evented, TabletsType
<1>15. ASSUME NEW ok \in BOOLEAN, OpenHidraw(ok) PROVE HostPhase'
  BY <1>0, <1>t, <1>h, <1>15, OpenHidrawDoes, HostKept DEF HostUntouched, Evented
<1>16. ASSUME NEW ok \in BOOLEAN, GrabTablet(ok) PROVE HostPhase'
  BY <1>0, <1>t, <1>h, <1>16, GrabTabletDoes, HostKept DEF HostUntouched, Evented
<1>17. ASSUME NEW ok \in BOOLEAN, ConnectTcp(ok) PROVE HostPhase'
  BY <1>0, <1>t, <1>h, <1>17, ConnectTcpDoes DEF HostPhase, HostGoes, Evented, TabletsType
<1>18. ASSUME NEW ok \in BOOLEAN, ListenTcp(ok) PROVE HostPhase'
  BY <1>0, <1>t, <1>h, <1>18, ListenTcpDoes DEF HostPhase, HostGoes, Evented, TabletsType
<1>19. ASSUME NEW ok \in BOOLEAN, CreateDevice(ok) PROVE HostPhase'
  <2>1. CASE HostGone
    BY <1>0, <1>h, <1>t, <2>1, HostGonePhase
  <2>2. CASE ~HostGone
    <3>1. /\ bh.pc = "create" /\ bh'.devices = bh.devices + 1 /\ bh'.got = bh.got
          /\ bh'.pc = (IF bh.devices + 1 = bh.count THEN "poll" ELSE "create")
          /\ bh'.count = bh.count
      BY <1>19, <1>t, <2>2, CreateDeviceDoes
    <3>2. Len(tablets) \in Nat /\ bh.devices \in Nat
      BY ONLY <1>t DEF TabletsType, BridgeHostType
    <3>3. bh.count = Len(tablets) /\ Len(bh.got) = Len(tablets) /\ bh.devices < Len(tablets)
      BY ONLY <1>h, <3>1 DEF HostPhase
    <3> QED
      BY ONLY <1>0, <3>1, <3>2, <3>3 DEF HostPhase
  <2> QED
    BY <2>1, <2>2
<1>20. ASSUME NEW i \in Interfaces, PenReports(i) PROVE HostPhase'
  BY <1>0, <1>t, <1>h, <1>20, PenReportsDoes, HostKept DEF HostUntouched, Evented
<1>21. ASSUME NEW i \in Interfaces, NEW type \in EventTypes, KernelAsks(i, type) PROVE HostPhase'
  <2>1. /\ kernel' = [kernel EXCEPT ![i] = Append(kernel[i], <<type, asked[i] + 1>>)]
        /\ bh' = bh /\ wire' = wire /\ ends' = ends
    BY <1>21, KernelAsksDoes
  <2>2. \A j \in Interfaces : kernel[j] # <<>> => kernel'[j] # <<>>
    BY ONLY <1>r, <2>1, Appended DEF EventsType
  <2>3. bh.ready \subseteq Interfaces
    BY ONLY <1>t DEF BridgeHostType
  <2>4. bh.pc \in {"frame", "events"} => \A j \in bh.ready : kernel'[j] # <<>>
    BY ONLY <1>h, <2>2, <2>3 DEF HostPhase
  <2> QED
    BY ONLY <1>0, <1>h, <2>1, <2>4 DEF HostPhase
<1>22. CASE UNCHANGED bridgeVars
  BY <1>0, <1>h, <1>22, HostKept DEF bridgeVars, deviceVars, HostUntouched
<1> QED
  BY <1>1, <1>2, <1>3, <1>4, <1>5, <1>6, <1>7, <1>8, <1>9, <1>10, <1>11,
     <1>12, <1>13, <1>14, <1>15, <1>16, <1>17, <1>18, <1>19, <1>20, <1>21, <1>22
    DEF BridgeNext, ClientSteps, HostSteps, EventTypes

LEMMA DescribedNext ==
    ASSUME BridgeType, ClientPhase, HostPhase, Link, Described, [BridgeNext]_bridgeVars
    PROVE  Described'
<1>0. Interfaces' = Interfaces /\ tablets' = tablets
  BY TabletsTypeNext DEF BridgeType
<1>a. SameFields
  BY BridgeFieldsNext
<1>t. BridgeClientType /\ BridgeHostType /\ WireType /\ TabletsType
  BY DEF BridgeType
<1>d. Described
  OBVIOUS
<1>1. CASE Attach
  BY <1>0, <1>t, <1>d, <1>1, AttachDoes DEF Described, HostGoes, HostGone, HostTurns
<1>2. CASE ClientPoll
  BY <1>0, <1>t, <1>d, <1>2, ClientPollDoes DEF Described, HostGoes, HostGone, HostTurns
<1>3. CASE ClientFrame
  BY <1>0, <1>t, <1>d, <1>3, ClientFrameDoes DEF Described, HostGoes, HostGone, HostTurns
<1>4. CASE ForwardReport
  <2>1. bh' = bh
    BY <1>4, ForwardReportDoes
  <2> QED
    BY <1>0, <1>d, <2>1 DEF Described
<1>5. CASE Detach
  BY <1>0, <1>t, <1>d, <1>5, DetachDoes DEF Described, HostGoes, HostGone, HostTurns
<1>6. CASE ReceiveDevice
  BY <1>0, <1>t, <1>d, <1>6, ReceiveDeviceDoes DEF Described, HostGoes, HostGone, HostTurns
<1>7. CASE ReceiveDescriptor
  <2>1. CASE HostGone
    BY <1>0, <1>d, <2>1 DEF Described, HostGone
  <2>2. CASE ~HostGone
    <3>1. /\ bh.pc = "descriptors" /\ UpTaken
          /\ bh'.got = Append(bh.got, <<Head(wire[1]).itf, Head(wire[1]).data>>)
      BY <1>7, <1>t, <2>2, ReceiveDescriptorDoes
    <3>2. Head(wire[1]) = wire[1][1] /\ 1 \in 1..Len(wire[1]) /\ Head(wire[1]) \in UpFrames
      BY ONLY <1>t, <3>1, HeadUp DEF UpTaken
    <3>3. Len(tablets) \in Nat \ {0} /\ Len(bh.got) \in Nat /\ bh.got \in Seq(Nat \X FrameData)
      BY ONLY <1>t DEF TabletsType, BridgeHostType
    <3>4. bh.count = Len(tablets) /\ Len(bh.got) < Len(tablets)
      BY ONLY HostPhase, <3>1 DEF HostPhase
    <3>5. /\ Received = Len(bh.got) + 1 /\ Received + 1 - 1 <= Len(tablets)
          /\ Received + 1 - 1 = Len(bh.got) + 1
      BY ONLY <3>1, <3>3, <3>4 DEF Received
    <3>6. wire[1][1] = Preamble(Len(bh.got) + 1)
      BY ONLY <3>1, <3>2, <3>5, Link DEF Link
    <3>7. Head(wire[1]).itf = Len(bh.got) + 1 /\ Head(wire[1]).data = tablets[1]
      BY ONLY <3>2, <3>3, <3>6 DEF Preamble, Frame
    <3> DEFINE e == <<Head(wire[1]).itf, Head(wire[1]).data>>
    <3>8. e \in Nat \X FrameData /\ e = <<Len(bh.got) + 1, tablets[1]>>
      BY ONLY <3>2, <3>7 DEF UpFrames
    <3> HIDE DEF e
    <3>9. /\ Len(bh'.got) = Len(bh.got) + 1 /\ \A i \in 1..Len(bh.got) : bh'.got[i] = bh.got[i]
          /\ bh'.got[Len(bh.got) + 1] = e
      <4>1. bh'.got = Append(bh.got, e)
        BY ONLY <3>1 DEF e
      <4> QED
        BY ONLY <3>3, <3>8, <4>1, AppendIs
    <3>10. ASSUME NEW j \in 1..Len(bh'.got) PROVE bh'.got[j] = <<j, tablets[1]>>
      <4>1. CASE j = Len(bh.got) + 1
        BY ONLY <3>8, <3>9, <4>1
      <4>2. CASE j # Len(bh.got) + 1
        <5>1. j \in 1..Len(bh.got)
          BY ONLY <3>3, <3>9, <3>10, <4>2
        <5> QED
          BY ONLY <1>d, <3>9, <5>1 DEF Described
      <4> QED
        BY <4>1, <4>2
    <3> QED
      BY ONLY <1>0, <3>10 DEF Described
  <2> QED
    BY <2>1, <2>2
<1>8. CASE HostPoll
  BY <1>0, <1>t, <1>d, <1>8, HostPollDoes DEF Described, HostGoes, HostGone, HostTurns
<1>9. CASE HostFrame
  BY <1>0, <1>t, <1>d, <1>9, HostFrameDoes DEF Described, HostGoes, HostGone, HostTurns
<1>10. CASE RelayEvent
  <2>1. bh'.got = bh.got
    BY <1>10, RelayEventDoes DEF HostTurns
  <2> QED
    BY <1>0, <1>d, <2>1 DEF Described
<1>11. CASE DestroyDevices
  BY <1>0, <1>t, <1>d, <1>11, DestroyDevicesDoes DEF Described, HostGoes, HostGone, HostTurns
<1>12. CASE PollFails
  BY <1>0, <1>t, <1>d, <1>12, PollFailsDoes DEF Described, HostGoes, HostGone, HostTurns
<1>13. CASE Killed
  BY <1>0, <1>t, <1>d, <1>13, KilledDoes DEF Described, HostGoes, HostGone, HostTurns
<1>14. CASE AcceptFails
  BY <1>0, <1>t, <1>d, <1>14, AcceptFailsDoes DEF Described, HostGoes, HostGone, HostTurns
<1>15. ASSUME NEW ok \in BOOLEAN, OpenHidraw(ok) PROVE Described'
  BY <1>0, <1>t, <1>d, <1>15, OpenHidrawDoes DEF Described, HostGoes, HostGone, HostTurns
<1>16. ASSUME NEW ok \in BOOLEAN, GrabTablet(ok) PROVE Described'
  BY <1>0, <1>t, <1>d, <1>16, GrabTabletDoes DEF Described, HostGoes, HostGone, HostTurns
<1>17. ASSUME NEW ok \in BOOLEAN, ConnectTcp(ok) PROVE Described'
  BY <1>0, <1>t, <1>d, <1>17, ConnectTcpDoes DEF Described, HostGoes, HostGone, HostTurns
<1>18. ASSUME NEW ok \in BOOLEAN, ListenTcp(ok) PROVE Described'
  BY <1>0, <1>t, <1>d, <1>18, ListenTcpDoes DEF Described, HostGoes, HostGone, HostTurns
<1>19. ASSUME NEW ok \in BOOLEAN, CreateDevice(ok) PROVE Described'
  BY <1>0, <1>t, <1>d, <1>19, CreateDeviceDoes DEF Described, HostGoes, HostGone, HostTurns
<1>20. ASSUME NEW i \in Interfaces, PenReports(i) PROVE Described'
  BY <1>0, <1>t, <1>d, <1>20, PenReportsDoes DEF Described, HostGoes, HostGone, HostTurns
<1>21. ASSUME NEW i \in Interfaces, NEW type \in EventTypes, KernelAsks(i, type) PROVE Described'
  BY <1>0, <1>t, <1>d, <1>21, KernelAsksDoes DEF Described, HostGoes, HostGone, HostTurns
<1>22. CASE UNCHANGED bridgeVars
  BY <1>0, <1>d, <1>22 DEF bridgeVars, Described
<1> QED
  BY <1>1, <1>2, <1>3, <1>4, <1>5, <1>6, <1>7, <1>8, <1>9, <1>10, <1>11,
     <1>12, <1>13, <1>14, <1>15, <1>16, <1>17, <1>18, <1>19, <1>20, <1>21, <1>22
    DEF BridgeNext, ClientSteps, HostSteps, EventTypes

\* How what the connection holds of the preamble changes: not at all,
LEMMA LinkKept ==
    ASSUME Link, tablets' = tablets, wire'[1] = wire[1], bh'.pc = "exit" \/ Received' = Received,
           bh.pc = "exit" => bh'.pc = "exit",
           Both' => Both /\ (bc'.pc = "attach" <=> bc.pc = "attach") /\ bc'.sent = bc.sent
    PROVE  Link'
<1>1. CASE bh'.pc = "exit"
  BY <1>1 DEF Link
<1>2. CASE bh'.pc # "exit"
  <2>1. \A k : Preamble(k)' = Preamble(k)
    BY DEF Preamble, Frame
  <2>2. Received' = Received /\ bh.pc # "exit"
    BY <1>2
  <2>3. \A k \in 1..Len(wire'[1]) :
          Received' + k - 1 <= Len(tablets') => wire'[1][k] = Preamble(Received + k - 1)
    BY ONLY Link, <2>2, tablets' = tablets, wire'[1] = wire[1] DEF Link
  <2>4. Both' => IF bc'.pc = "attach" THEN Received' + Len(wire'[1]) = bc'.sent
                 ELSE Len(tablets') < Received' + Len(wire'[1])
    BY ONLY Link, <2>2, tablets' = tablets, wire'[1] = wire[1],
            Both' => Both /\ (bc'.pc = "attach" <=> bc.pc = "attach") /\ bc'.sent = bc.sent
        DEF Link
  <2> QED
    BY ONLY <2>1, <2>2, <2>3, <2>4, Zenon DEF Link
<1> QED
  BY <1>1, <1>2

LEMMA Longer ==
    ASSUME NEW S, NEW s \in Seq(S), NEW e
    PROVE  /\ Len(s) \in Nat /\ Len(Append(s, e)) = Len(s) + 1
           /\ \A k \in 1..Len(s) : Append(s, e)[k] = s[k]
           /\ Append(s, e)[Len(s) + 1] = e
<1>1. s \in Seq(S \cup {e}) /\ e \in S \cup {e}
  OBVIOUS
<1> QED
  BY ONLY <1>1, AppendIs

LEMMA ReceivedIn ==
    ASSUME BridgeHostType
    PROVE  Received \in Nat /\ Len(bh.got) \in Nat
<1>1. Len(bh.got) \in Nat
  BY DEF BridgeHostType
<1> QED
  BY ONLY <1>1 DEF Received

\* by a frame that is the next of the preamble or comes after it,
LEMMA LinkSent ==
    ASSUME Link, BridgeType, tablets' = tablets, bh' = bh, NEW f, wire'[1] = Append(wire[1], f),
           bh.pc # "exit" => \/ f = Preamble(Received + Len(wire[1]))
                             \/ Len(tablets) < Received + Len(wire[1]),
           Both' => /\ Both
                    /\ \/ /\ bc.pc = "attach" /\ bc'.sent = bc.sent + 1 /\ bc.sent <= Len(tablets)
                          /\ bc'.pc = (IF bc.sent = Len(tablets) THEN "poll" ELSE "attach")
                       \/ bc.pc # "attach" /\ bc'.pc # "attach"
    PROVE  Link'
<1> DEFINE n == Len(wire[1])
           r == Received
<1>1. /\ n \in Nat /\ r \in Nat /\ Len(tablets) \in Nat /\ bc.sent \in Nat
  BY ReceivedIn, LenProperties DEF BridgeType, WireType, TabletsType, BridgeClientType
<1>2. /\ Len(wire'[1]) = n + 1 /\ wire'[1][n + 1] = f /\ \A k \in 1..n : wire'[1][k] = wire[1][k]
  BY Longer DEF BridgeType, WireType
<1>3. Received' = r /\ \A k : Preamble(k)' = Preamble(k)
  BY DEF Received, Preamble, Frame
<1> HIDE DEF n, r
<1>4. CASE bh.pc # "exit"
  <2>1. ASSUME NEW k \in 1..n + 1, r + k - 1 <= Len(tablets)
        PROVE  wire'[1][k] = Preamble(r + k - 1)
    <3>1. CASE k = n + 1
      <4>1. r + k - 1 = r + n
        BY ONLY <1>1, <3>1
      <4>2. f = Preamble(r + n)
        BY <1>1, <1>4, <2>1, <4>1 DEF n, r
      <4> QED
        BY ONLY <1>2, <3>1, <4>1, <4>2
    <3>2. CASE k \in 1..n
      <4>1. wire[1][k] = Preamble(r + k - 1)
        BY ONLY <1>4, <2>1, <3>2, Link DEF Link, n, r
      <4> QED
        BY ONLY <1>2, <3>2, <4>1
    <3>3. k = n + 1 \/ k \in 1..n
      BY ONLY <1>1, k \in 1..n + 1
    <3> QED
      BY ONLY <3>1, <3>2, <3>3
  <2>2. ASSUME Both' PROVE IF bc'.pc = "attach" THEN r + (n + 1) = bc'.sent ELSE Len(tablets) < r + (n + 1)
    <3>0. Both
      BY <2>2
    <3>1. IF bc.pc = "attach" THEN r + n = bc.sent ELSE Len(tablets) < r + n
      BY ONLY <1>4, <3>0, Link, Zenon DEF Link, n, r
    <3>2. \/ /\ bc.pc = "attach" /\ bc'.sent = bc.sent + 1 /\ bc.sent <= Len(tablets)
             /\ bc'.pc = (IF bc.sent = Len(tablets) THEN "poll" ELSE "attach")
          \/ bc.pc # "attach" /\ bc'.pc # "attach"
      BY <2>2, Zenon
    <3> QED
      BY ONLY <1>1, <3>1, <3>2
  <2>3. \A k \in 1..Len(wire'[1]) :
           Received' + k - 1 <= Len(tablets') => wire'[1][k] = Preamble(Received' + k - 1)
    BY ONLY <1>2, <1>3, <2>1, tablets' = tablets, Zenon
  <2>4. Both' => IF bc'.pc = "attach" THEN Received' + Len(wire'[1]) = bc'.sent
                 ELSE Len(tablets') < Received' + Len(wire'[1])
    BY ONLY <1>2, <1>3, <2>2, tablets' = tablets, Zenon
  <2> QED
    BY ONLY <1>3, <2>3, <2>4, Zenon DEF Link
<1>5. CASE bh.pc = "exit"
  BY <1>5 DEF Link
<1> QED
  BY <1>4, <1>5

\* or by its first frame.
LEMMA LinkTaken ==
    ASSUME Link, BridgeType, tablets' = tablets, bc' = bc, ends' = ends, UpTaken, bh.pc # "exit",
           \/ Received' = Received + 1
           \/ Received' = Received /\ Received = Len(tablets) + 1,
           bc.pc = "attach" => bc.sent <= Len(tablets)
    PROVE  Link'
<1> DEFINE n == Len(wire[1])
           r == Received
<1>1. /\ n \in Nat /\ r \in Nat /\ Len(tablets) \in Nat /\ bc.sent \in Nat
  BY ReceivedIn, LenProperties DEF BridgeType, WireType, TabletsType, BridgeClientType
<1>2. /\ n > 0 /\ Len(wire'[1]) = n - 1 /\ \A k \in 1..n - 1 : wire'[1][k] = wire[1][k + 1] /\ k + 1 \in 1..n
  <2>1. wire[1] \in Seq(UpFrames) /\ wire[1] # <<>> /\ wire'[1] = Tail(wire[1])
    BY DEF BridgeType, WireType, UpTaken
  <2>2. Len(wire'[1]) = n - 1 /\ \A k \in 1..Len(wire'[1]) : wire'[1][k] = wire[1][k + 1] /\ k + 1 \in 1..n
    BY ONLY <2>1, TailIs
  <2>3. n \in Nat \ {0}
    BY ONLY <2>1, TailIs
  <2> QED
    BY ONLY <2>2, <2>3
<1>3. (Both' <=> Both) /\ \A k : Preamble(k)' = Preamble(k)
  BY DEF Both, Preamble, Frame
<1>4. (r = Len(tablets) + 1 /\ Received' = r) \/ Received' = r + 1
  OBVIOUS
<1>5. /\ \A k \in 1..n : r + k - 1 <= Len(tablets) => wire[1][k] = Preamble(r + k - 1)
      /\ Both => IF bc.pc = "attach" THEN r + n = bc.sent ELSE Len(tablets) < r + n
  BY ONLY Link, bh.pc # "exit" DEF Link
<1>6. bc.pc = "attach" => bc.sent <= Len(tablets)
  OBVIOUS
<1> HIDE DEF n, r
<1>7. ASSUME NEW k \in 1..n - 1, Received' + k - 1 <= Len(tablets)
      PROVE  wire'[1][k] = Preamble(Received' + k - 1)
  <2>1. Received' = r + 1 /\ Received' + k - 1 = r + (k + 1) - 1 /\ k + 1 \in 1..n
    BY ONLY <1>1, <1>4, <1>7
  <2>2. wire[1][k + 1] = Preamble(r + (k + 1) - 1)
    BY ONLY <1>5, <1>7, <2>1
  <2> QED
    BY ONLY <1>2, <1>7, <2>1, <2>2
<1>8. Both => IF bc.pc = "attach" THEN Received' + (n - 1) = bc.sent ELSE Len(tablets) < Received' + (n - 1)
  BY ONLY <1>1, <1>2, <1>4, <1>5, <1>6
<1>9. \A k \in 1..Len(wire'[1]) :
           Received' + k - 1 <= Len(tablets') => wire'[1][k] = Preamble(Received' + k - 1)
  BY ONLY <1>2, <1>7, tablets' = tablets, Zenon
<1>10. Both' => IF bc'.pc = "attach" THEN Received' + Len(wire'[1]) = bc'.sent
                 ELSE Len(tablets') < Received' + Len(wire'[1])
  BY ONLY <1>2, <1>3, <1>8, tablets' = tablets, bc' = bc, Zenon
<1> QED
  BY ONLY <1>3, <1>9, <1>10, Zenon DEF Link

LEMMA LinkNext ==
    ASSUME BridgeType, OneModel, ClientPhase, HostPhase, Link, [BridgeNext]_bridgeVars
    PROVE  Link'
<1>0. Interfaces' = Interfaces /\ tablets' = tablets
  BY TabletsTypeNext DEF BridgeType
<1>a. SameFields
  BY BridgeFieldsNext
<1>t. BridgeClientType /\ BridgeHostType /\ WireType /\ TabletsType
  BY DEF BridgeType
<1>l. Link
  OBVIOUS
<1>h. HostPhase /\ ClientPhase
  OBVIOUS
<1>1. CASE Attach
  <2> DEFINE f == IF bc.sent = 0 THEN Frame("device", 0, 0, Len(tablets))
                  ELSE Frame("descriptor", bc.sent, 0, tablets[bc.sent])
  <2>1. bc.pc = "attach" /\ bh' = bh /\ bc.sent \in Nat /\ bc.sent <= Len(tablets) /\ Len(tablets) \in Nat
    BY <1>1, <1>t, <1>h, AttachDoes DEF ClientPhase, BridgeClientType, TabletsType
  <2>2. f = Preamble(bc.sent)
    <3>1. bc.sent # 0 => tablets[bc.sent] = tablets[1]
      BY ONLY <2>1, OneModel DEF OneModel
    <3> QED
      BY ONLY <3>1 DEF Preamble
  <2>3. \/ /\ Up(f) /\ bc'.sent = bc.sent + 1 /\ ends' = ends
           /\ bc'.pc = (IF bc.sent = Len(tablets) THEN "poll" ELSE "attach")
        \/ /\ ClientGoes("exit") /\ wire' = wire
           /\ ends' = ends \ {"client"}
    BY ONLY <1>1, <1>t, AttachDoes
  <2> HIDE DEF f
  <2>4. CASE ClientGoes("exit") /\ wire' = wire /\ ends' = ends \ {"client"}
    <3>1. ~Both' /\ Received' = Received
      BY ONLY <2>1, <2>4 DEF Both, Received
    <3> QED
      BY <1>0, <1>l, <2>1, <2>4, <3>1, LinkKept
  <2>5. CASE /\ Up(f) /\ bc'.sent = bc.sent + 1 /\ ends' = ends
             /\ bc'.pc = (IF bc.sent = Len(tablets) THEN "poll" ELSE "attach")
    <3>1. CASE Both
      <4>1. wire'[1] = Append(wire[1], f)
        BY ONLY <2>5, <3>1 DEF Up
      <4>2. bh.pc # "exit" => f = Preamble(Received + Len(wire[1]))
        BY ONLY <1>l, <2>1, <2>2, <3>1 DEF Link
      <4>3. Both'
        BY <2>5, <3>1 DEF Both
      <4> QED
        BY <1>0, <1>l, <2>1, <2>5, <3>1, <4>1, <4>2, LinkSent
    <3>2. CASE ~Both
      <4>1. ~Both' /\ Received' = Received /\ wire'[1] = wire[1]
        BY ONLY <2>1, <2>5, <3>2 DEF Both, Received, Up
      <4> QED
        BY <1>0, <1>l, <2>1, <4>1, LinkKept
    <3> QED
      BY <3>1, <3>2
  <2> QED
    BY <2>3, <2>4, <2>5
<1>2. CASE ClientPoll
  <2>1. Both' => Both /\ (bc'.pc = "attach" <=> bc.pc = "attach") /\ bc'.sent = bc.sent
    BY <1>2, <1>t, <1>h, ClientPollDoes DEF Both, ClientPhase, ClientGoes, ClientTurns
  <2>2. Received' = Received
    BY <1>2, <1>t, ClientPollDoes DEF Received
  <2> QED
    BY <1>0, <1>t, <1>l, <1>2, <2>1, <2>2, ClientPollDoes, LinkKept
<1>3. CASE ClientFrame
  <2>0. /\ bh' = bh /\ ends' = ends /\ bc.pc = "frame" /\ bc'.pc # "attach" /\ bc'.sent = bc.sent
        /\ wire'[1] = wire[1] \/ ("host" \in ends /\ \E f : wire'[1] = Append(wire[1], f))
    BY <1>3, <1>t, <1>h, ClientFrameDoes DEF ClientGoes, ClientTurns
  <2>1. CASE wire'[1] = wire[1]
    BY <1>0, <1>l, <2>0, <2>1, LinkKept DEF Both, Received
  <2>2. ASSUME NEW f, "host" \in ends, wire'[1] = Append(wire[1], f) PROVE Link'
    <3>1. Both
      BY ONLY <1>h, <2>0, <2>2 DEF ClientPhase, Both
    <3>2. bh.pc # "exit" => Len(tablets) < Received + Len(wire[1])
      BY ONLY <1>l, <2>0, <3>1 DEF Link
    <3> QED
      BY <1>0, <1>l, <2>0, <2>2, <3>1, <3>2, LinkSent
  <2> QED
    BY <2>0, <2>1, <2>2
<1>4. CASE ForwardReport
  <2>0. PICK f : Up(f) /\ bh' = bh /\ ends' = ends /\ bc.pc = "reports" /\ bc'.pc # "attach"
    BY <1>4, ForwardReportDoes DEF ClientTurns
  <2>1. CASE Both
    <3>1. wire'[1] = Append(wire[1], f)
      BY ONLY <2>0, <2>1 DEF Up
    <3>2. bh.pc # "exit" => Len(tablets) < Received + Len(wire[1])
      BY ONLY <1>l, <2>0, <2>1 DEF Link
    <3> QED
      BY <1>0, <1>l, <2>0, <2>1, <3>1, <3>2, LinkSent
  <2>2. CASE ~Both
    <3>1. ~Both' /\ Received' = Received /\ wire'[1] = wire[1]
      BY ONLY <2>0, <2>2 DEF Both, Received, Up
    <3> QED
      BY <1>0, <1>l, <2>0, <3>1, LinkKept
  <2> QED
    BY <2>1, <2>2
<1>5. CASE Detach
  <2>0. PICK f : Up(f) /\ bh' = bh /\ ends' \subseteq ends /\ bc.pc = "detach" /\ bc'.pc # "attach"
    BY <1>5, <1>t, DetachDoes DEF ClientGoes
  <2>1. CASE Both
    <3>1. wire'[1] = Append(wire[1], f)
      BY ONLY <2>0, <2>1 DEF Up
    <3>2. bh.pc # "exit" => Len(tablets) < Received + Len(wire[1])
      BY ONLY <1>l, <2>0, <2>1 DEF Link
    <3> QED
      BY <1>0, <1>l, <2>0, <2>1, <3>1, <3>2, LinkSent
  <2>2. CASE ~Both
    <3>1. ~Both' /\ Received' = Received /\ wire'[1] = wire[1]
      BY ONLY <2>0, <2>2 DEF Both, Received, Up
    <3> QED
      BY <1>0, <1>l, <2>0, <3>1, LinkKept
  <2> QED
    BY <2>1, <2>2
<1>6. CASE ReceiveDevice
  <2>1. CASE HostGone /\ wire' = wire
    <3>1. ~Both' /\ bh'.pc = "exit"
      BY ONLY <2>1 DEF Both, HostGone
    <3> QED
      BY <1>0, <1>l, <2>1, <3>1, LinkKept
  <2>2. CASE ~(HostGone /\ wire' = wire)
    <3>1. bc' = bc /\ ends' = ends /\ UpTaken /\ bh.pc # "exit"
      BY <1>6, <1>t, <2>2, ReceiveDeviceDoes
    <3>2. Received' = Received + 1
      BY <1>6, <1>t, <1>h, <2>2, ReceiveDeviceDoes DEF Received, HostPhase, BridgeHostType
    <3> QED
      BY <1>0, <1>l, <1>h, <3>1, <3>2, LinkTaken DEF ClientPhase
  <2> QED
    BY <2>1, <2>2
<1>7. CASE ReceiveDescriptor
  <2>1. CASE HostGone /\ wire' = wire
    <3>1. ~Both' /\ bh'.pc = "exit"
      BY ONLY <2>1 DEF Both, HostGone
    <3> QED
      BY <1>0, <1>l, <2>1, <3>1, LinkKept
  <2>2. CASE ~(HostGone /\ wire' = wire)
    <3>1. bc' = bc /\ ends' = ends /\ UpTaken /\ bh.pc # "exit"
      BY <1>7, <1>t, <2>2, ReceiveDescriptorDoes
    <3>2. Received' = Received + 1
      BY <1>7, <1>t, <1>h, <2>2, ReceiveDescriptorDoes DEF Received, HostPhase, BridgeHostType
    <3> QED
      BY <1>0, <1>l, <1>h, <3>1, <3>2, LinkTaken DEF ClientPhase
  <2> QED
    BY <2>1, <2>2
<1>8. CASE HostPoll
  <2>1. Both' => Both /\ (bc'.pc = "attach" <=> bc.pc = "attach") /\ bc'.sent = bc.sent
    BY <1>8, <1>t, HostPollDoes DEF Both, HostGone
  <2>2. (bh'.pc = "exit" \/ Received' = Received) /\ bh.pc # "exit"
    BY <1>8, <1>t, <1>h, HostPollDoes DEF Received, HostGoes, HostGone
  <2>3. wire'[1] = wire[1]
    BY <1>8, <1>t, HostPollDoes
  <2> QED
    BY <1>0, <1>l, <2>1, <2>2, <2>3, LinkKept
<1>9. CASE HostFrame
  <2>1. bc' = bc /\ ends' = ends /\ UpTaken /\ bh.pc = "frame" /\ bh'.pc # "exit"
    BY <1>9, <1>t, <1>h, HostFrameDoes DEF HostTurns
  <2>2. Received' = Received
    BY <1>9, <1>t, <1>h, HostFrameDoes DEF Received, HostTurns
  <2>3. Received = Len(tablets) + 1
    BY ONLY <1>h, <1>t, <2>1 DEF Received, HostPhase, TabletsType
  <2> QED
    BY <1>0, <1>l, <1>h, <2>1, <2>2, <2>3, LinkTaken DEF ClientPhase
<1>10. CASE RelayEvent
  <2>1. bc' = bc /\ ends' = ends /\ wire'[1] = wire[1] /\ bh.pc = "events" /\ bh'.got = bh.got
        /\ bh'.pc \in {"events", "poll", "destroy"}
    BY <1>10, RelayEventDoes DEF Down, HostTurns
  <2> QED
    BY <1>0, <1>l, <2>1, LinkKept DEF Both, Received
<1>11. CASE DestroyDevices
  <2>1. Both' => Both /\ (bc'.pc = "attach" <=> bc.pc = "attach") /\ bc'.sent = bc.sent
    BY <1>11, <1>t, DestroyDevicesDoes DEF Both, HostGone
  <2>2. (bh'.pc = "exit" \/ Received' = Received) /\ bh.pc # "exit"
    BY <1>11, <1>t, <1>h, DestroyDevicesDoes DEF Received, HostGoes, HostGone
  <2>3. wire'[1] = wire[1]
    BY <1>11, <1>t, DestroyDevicesDoes
  <2> QED
    BY <1>0, <1>l, <2>1, <2>2, <2>3, LinkKept
<1>12. CASE PollFails
  <2>1. Both' => Both /\ (bc'.pc = "attach" <=> bc.pc = "attach") /\ bc'.sent = bc.sent
    BY <1>12, <1>t, PollFailsDoes DEF Both, ClientGoes
  <2>2. Received' = Received /\ (bh.pc = "exit" => bh'.pc = "exit")
    BY <1>12, <1>t, PollFailsDoes DEF Received, HostGoes
  <2> QED
    BY <1>0, <1>t, <1>l, <1>12, <2>1, <2>2, PollFailsDoes, LinkKept
<1>13. CASE Killed
  <2>1. Both' => Both /\ (bc'.pc = "attach" <=> bc.pc = "attach") /\ bc'.sent = bc.sent
    BY <1>13, <1>t, KilledDoes DEF Both, HostGone
  <2>2. (Received' = Received \/ bh'.pc = "exit") /\ (bh.pc = "exit" => bh'.pc = "exit")
    BY <1>13, <1>t, KilledDoes DEF Received, HostGone
  <2> QED
    BY <1>0, <1>t, <1>l, <1>13, <2>1, <2>2, KilledDoes, LinkKept
<1>14. CASE AcceptFails
  <2>1. Both' => Both /\ (bc'.pc = "attach" <=> bc.pc = "attach") /\ bc'.sent = bc.sent
    BY <1>14, <1>t, AcceptFailsDoes DEF Both, HostGone
  <2>2. (bh'.pc = "exit" \/ Received' = Received) /\ bh.pc # "exit"
    BY <1>14, <1>t, <1>h, AcceptFailsDoes DEF Received, HostGoes, HostGone
  <2>3. wire'[1] = wire[1]
    BY <1>14, <1>t, AcceptFailsDoes
  <2> QED
    BY <1>0, <1>l, <2>1, <2>2, <2>3, LinkKept
<1>15. ASSUME NEW ok \in BOOLEAN, OpenHidraw(ok) PROVE Link'
  <2>1. Both' => Both /\ (bc'.pc = "attach" <=> bc.pc = "attach") /\ bc'.sent = bc.sent
    BY <1>15, <1>t, <1>h, OpenHidrawDoes DEF Both, ClientPhase, ClientGoes, ClientTurns
  <2>2. Received' = Received
    BY <1>15, <1>t, OpenHidrawDoes DEF Received
  <2> QED
    BY <1>0, <1>t, <1>l, <1>15, <2>1, <2>2, OpenHidrawDoes, LinkKept
<1>16. ASSUME NEW ok \in BOOLEAN, GrabTablet(ok) PROVE Link'
  <2>1. Both' => Both /\ (bc'.pc = "attach" <=> bc.pc = "attach") /\ bc'.sent = bc.sent
    BY <1>16, <1>t, <1>h, GrabTabletDoes DEF Both, ClientPhase, ClientGoes, ClientTurns
  <2>2. Received' = Received
    BY <1>16, <1>t, GrabTabletDoes DEF Received
  <2> QED
    BY <1>0, <1>t, <1>l, <1>16, <2>1, <2>2, GrabTabletDoes, LinkKept
<1>17. ASSUME NEW ok \in BOOLEAN, ConnectTcp(ok) PROVE Link'
  <2>1. CASE bh.pc = "listen" /\ bh'.pc = "device" /\ bc'.pc = "attach" /\ bc'.sent = bc.sent
    <3>1. bc.sent = 0 /\ wire'[1] = <<>>
      BY <1>17, <1>t, <1>h, ConnectTcpDoes DEF ClientPhase
    <3>2. Received' = 0 /\ Len(wire'[1]) = 0
      BY ONLY <2>1, <3>1 DEF Received
    <3> QED
      BY ONLY <2>1, <3>1, <3>2 DEF Link
  <2>2. CASE ClientGoes("exit") /\ bh' = bh /\ ends' = ends \ {"client"}
    <3>1. ~Both' /\ Received' = Received /\ wire' = wire
      BY <1>17, <1>t, <2>2, ConnectTcpDoes DEF Both, Received
    <3> QED
      BY <1>0, <1>l, <2>2, <3>1, LinkKept
  <2> QED
    BY <1>17, <1>t, <2>1, <2>2, ConnectTcpDoes DEF ClientGoes, HostGoes
<1>18. ASSUME NEW ok \in BOOLEAN, ListenTcp(ok) PROVE Link'
  <2>1. Both' => Both /\ (bc'.pc = "attach" <=> bc.pc = "attach") /\ bc'.sent = bc.sent
    BY <1>18, <1>t, ListenTcpDoes DEF Both, HostGone
  <2>2. (bh'.pc = "exit" \/ Received' = Received) /\ bh.pc # "exit"
    BY <1>18, <1>t, <1>h, ListenTcpDoes DEF Received, HostGoes, HostGone
  <2>3. wire'[1] = wire[1]
    BY <1>18, <1>t, ListenTcpDoes
  <2> QED
    BY <1>0, <1>l, <2>1, <2>2, <2>3, LinkKept
<1>19. ASSUME NEW ok \in BOOLEAN, CreateDevice(ok) PROVE Link'
  <2>1. Both' => Both /\ (bc'.pc = "attach" <=> bc.pc = "attach") /\ bc'.sent = bc.sent
    BY <1>19, <1>t, CreateDeviceDoes DEF Both, HostGone
  <2>2. (bh'.pc = "exit" \/ Received' = Received) /\ bh.pc # "exit"
    BY <1>19, <1>t, <1>h, CreateDeviceDoes DEF Received, HostGoes, HostGone
  <2>3. wire'[1] = wire[1]
    BY <1>19, <1>t, CreateDeviceDoes
  <2> QED
    BY <1>0, <1>l, <2>1, <2>2, <2>3, LinkKept
<1>20. ASSUME NEW i \in Interfaces, PenReports(i) PROVE Link'
  <2>1. Both' => Both /\ (bc'.pc = "attach" <=> bc.pc = "attach") /\ bc'.sent = bc.sent
    BY <1>20, <1>t, <1>h, PenReportsDoes DEF Both, ClientPhase, ClientGoes, ClientTurns
  <2>2. Received' = Received
    BY <1>20, <1>t, PenReportsDoes DEF Received
  <2> QED
    BY <1>0, <1>t, <1>l, <1>20, <2>1, <2>2, PenReportsDoes, LinkKept
<1>21. ASSUME NEW i \in Interfaces, NEW type \in EventTypes, KernelAsks(i, type) PROVE Link'
  <2>1. Both' => Both /\ (bc'.pc = "attach" <=> bc.pc = "attach") /\ bc'.sent = bc.sent
    BY <1>21, <1>t, <1>h, KernelAsksDoes DEF Both, ClientPhase, ClientGoes, ClientTurns
  <2>2. Received' = Received
    BY <1>21, <1>t, KernelAsksDoes DEF Received
  <2> QED
    BY <1>0, <1>t, <1>l, <1>21, <2>1, <2>2, KernelAsksDoes, LinkKept
<1>22. CASE UNCHANGED bridgeVars
  <2>1. UNCHANGED <<bc, bh, wire, ends>>
    BY <1>22 DEF bridgeVars
  <2> QED
    BY <1>0, <1>l, <2>1, LinkKept DEF Both, Received
<1> QED
  BY <1>1, <1>2, <1>3, <1>4, <1>5, <1>6, <1>7, <1>8, <1>9, <1>10, <1>11,
     <1>12, <1>13, <1>14, <1>15, <1>16, <1>17, <1>18, <1>19, <1>20, <1>21, <1>22
    DEF BridgeNext, ClientSteps, HostSteps, EventTypes

\* An interface's reports, as one formula of it.
ReportsOf(i) ==
    /\ \A n \in 1..Len(read[i]) : read[i][n] = n
    /\ \A n \in 1..Len(pen[i]) : pen[i][n] = Len(read[i]) + n
    /\ made[i] = Len(read[i]) + Len(pen[i])
    /\ \A n \in 1..Len(injected[i]) : injected[i][n] = n
    /\ Len(injected[i]) <= Len(read[i])

LEMMA ReportsEach == Reports <=> \A i \in Interfaces : ReportsOf(i)
<1> QED
  BY Zenon DEF Reports, ReportsOf

LEMMA ReportsKept ==
    ASSUME Reports, Interfaces' = Interfaces, pen' = pen, read' = read, made' = made, injected' = injected
    PROVE  Reports'
<1>1. \A i \in Interfaces : ReportsOf(i)'
  BY ReportsEach, Zenon DEF ReportsOf
<1> QED
  BY <1>1, Zenon DEF Reports, ReportsOf

\* It is enough to look at the interface that changes.
LEMMA ReportsOne ==
    ASSUME Reports, Interfaces' = Interfaces, NEW i \in Interfaces, ReportsOf(i)',
           \A j \in Interfaces \ {i} :
             pen'[j] = pen[j] /\ read'[j] = read[j] /\ made'[j] = made[j] /\ injected'[j] = injected[j]
    PROVE  Reports'
<1>1. ASSUME NEW j \in Interfaces PROVE ReportsOf(j)'
  <2>1. CASE j = i
    BY ONLY <2>1, ReportsOf(i)'
  <2>2. CASE j # i
    <3>1. pen'[j] = pen[j] /\ read'[j] = read[j] /\ made'[j] = made[j] /\ injected'[j] = injected[j]
      BY <2>2
    <3>2. ReportsOf(j)
      BY ReportsEach
    <3> QED
      BY ONLY <3>1, <3>2, Zenon DEF ReportsOf
  <2> QED
    BY <2>1, <2>2
<1> QED
  BY ONLY <1>1, Interfaces' = Interfaces, Zenon DEF Reports, ReportsOf

LEMMA ReportsNext ==
    ASSUME BridgeType, ClientPhase, HostPhase, Addressed, Inputs, Reports, [BridgeNext]_bridgeVars
    PROVE  Reports'
<1>0. Interfaces' = Interfaces /\ tablets' = tablets
  BY TabletsTypeNext DEF BridgeType
<1>a. SameFields
  BY BridgeFieldsNext
<1>t. BridgeClientType /\ BridgeHostType /\ WireType /\ TabletsType
  BY DEF BridgeType
<1>r. ReportsType
  BY DEF BridgeType
<1>p. Reports
  OBVIOUS
<1>1. CASE Attach
  BY <1>0, <1>t, <1>p, <1>1, AttachDoes, ReportsKept DEF Reported
<1>2. CASE ClientPoll
  BY <1>0, <1>t, <1>p, <1>2, ClientPollDoes, ReportsKept DEF Reported
<1>3. CASE ClientFrame
  BY <1>0, <1>t, <1>p, <1>3, ClientFrameDoes, ReportsKept DEF Reported
<1>4. CASE ForwardReport
  <2>1. PICK i \in Interfaces :
          /\ pen[i] # <<>> /\ pen' = [pen EXCEPT ![i] = Tail(pen[i])]
          /\ read' = [read EXCEPT ![i] = Append(read[i], Head(pen[i]))]
          /\ made' = made /\ injected' = injected
    BY <1>4, ForwardReportDoes
  <2>2. pen[i] \in Seq(Nat) /\ read[i] \in Seq(Nat) /\ injected[i] \in Seq(Nat) /\ made[i] \in Nat
    BY ONLY <1>r DEF ReportsType
  <2> DEFINE p == Len(pen[i])
             r == Len(read[i])
  <2>3. /\ pen'[i] = Tail(pen[i]) /\ read'[i] = Append(read[i], Head(pen[i]))
        /\ made'[i] = made[i] /\ injected'[i] = injected[i]
        /\ \A j \in Interfaces \ {i} :
             pen'[j] = pen[j] /\ read'[j] = read[j] /\ made'[j] = made[j] /\ injected'[j] = injected[j]
    BY ONLY <1>r, <2>1 DEF ReportsType
  <2>4. /\ Len(pen'[i]) = p - 1 /\ p \in Nat \ {0} /\ Head(pen[i]) = pen[i][1]
        /\ \A n \in 1..Len(pen'[i]) : pen'[i][n] = pen[i][n + 1] /\ n + 1 \in 1..p
    <3>1. pen[i] # <<>> /\ pen'[i] = Tail(pen[i])
      BY ONLY <2>1, <2>3
    <3> QED
      BY ONLY <2>2, <3>1, TailIs
  <2>5. /\ Len(read'[i]) = r + 1 /\ r \in Nat /\ read'[i][r + 1] = Head(pen[i])
        /\ \A n \in 1..r : read'[i][n] = read[i][n]
    BY ONLY <2>2, <2>3, Longer
  <2>6. /\ \A n \in 1..r : read[i][n] = n
        /\ \A n \in 1..p : pen[i][n] = r + n
        /\ made[i] = r + p
        /\ \A n \in 1..Len(injected[i]) : injected[i][n] = n
        /\ Len(injected[i]) <= r /\ Len(injected[i]) \in Nat
    <3>1. ReportsOf(i)
      BY ONLY <1>p, i \in Interfaces, ReportsEach, Zenon
    <3>2. Len(injected[i]) \in Nat
      BY ONLY <2>2
    <3> QED
      BY ONLY <3>1, <3>2, Zenon DEF ReportsOf
  <2> HIDE DEF p, r
  <2>7. ASSUME NEW n \in 1..r + 1 PROVE read'[i][n] = n
    <3>1. pen[i][1] = r + 1
      BY ONLY <2>4, <2>6
    <3>2. CASE n = r + 1
      BY ONLY <2>4, <2>5, <3>1, <3>2
    <3>3. CASE n \in 1..r
      BY ONLY <2>5, <2>6, <3>3
    <3>4. n = r + 1 \/ n \in 1..r
      BY ONLY <2>5, n \in 1..r + 1
    <3> QED
      BY ONLY <3>2, <3>3, <3>4
  <2>8. ASSUME NEW n \in 1..p - 1 PROVE pen'[i][n] = (r + 1) + n
    <3>1. pen'[i][n] = pen[i][n + 1] /\ n + 1 \in 1..p
      BY ONLY <2>4, <2>8
    <3> QED
      BY ONLY <2>5, <2>6, <2>8, <3>1
  <2>9. made[i] = (r + 1) + (p - 1) /\ Len(injected[i]) <= r + 1
    <3>1. /\ r \in Nat /\ p \in Nat /\ made[i] = r + p
          /\ Len(injected[i]) <= r /\ Len(injected[i]) \in Nat
      BY ONLY <2>4, <2>5, <2>6, Zenon
    <3> QED
      BY ONLY <3>1
  <2>10. ReportsOf(i)'
    <3>1. /\ Len(read'[i]) = r + 1 /\ Len(pen'[i]) = p - 1
          /\ made'[i] = made[i] /\ injected'[i] = injected[i]
      BY ONLY <2>3, <2>4, <2>5
    <3>2. /\ \A n \in 1..Len(read'[i]) : read'[i][n] = n
          /\ \A n \in 1..Len(pen'[i]) : pen'[i][n] = Len(read'[i]) + n
      BY ONLY <2>7, <2>8, <3>1, Zenon
    <3>3. /\ made'[i] = Len(read'[i]) + Len(pen'[i])
          /\ Len(injected'[i]) <= Len(read'[i])
      BY ONLY <2>9, <3>1, Zenon
    <3>4. \A n \in 1..Len(injected'[i]) : injected'[i][n] = n
      BY ONLY <2>6, <3>1, Zenon
    <3> QED
      BY ONLY <3>2, <3>3, <3>4, Zenon DEF ReportsOf
  <2> QED
    BY ONLY <1>0, <1>p, <2>3, <2>10, ReportsOne
<1>5. CASE Detach
  BY <1>0, <1>t, <1>p, <1>5, DetachDoes, ReportsKept DEF Reported
<1>6. CASE ReceiveDevice
  BY <1>0, <1>t, <1>p, <1>6, ReceiveDeviceDoes, ReportsKept DEF Reported
<1>7. CASE ReceiveDescriptor
  BY <1>0, <1>t, <1>p, <1>7, ReceiveDescriptorDoes, ReportsKept DEF Reported
<1>8. CASE HostPoll
  BY <1>0, <1>t, <1>p, <1>8, HostPollDoes, ReportsKept DEF Reported
<1>9. CASE HostFrame
  <2>1. /\ wire[1] # <<>> /\ injected' = Injected(Head(wire[1]))
        /\ pen' = pen /\ made' = made /\ read' = read
    BY <1>9, <1>t, HostFrameDoes DEF UpTaken
  <2>2. CASE Head(wire[1]).type # "input"
    <3>1. injected' = injected
      BY ONLY <2>1, <2>2 DEF Injected
    <3> QED
      BY ONLY <1>0, <1>p, <2>1, <3>1, ReportsKept
  <2>3. CASE Head(wire[1]).type = "input"
    <3>0. pen' = pen /\ made' = made /\ read' = read
      BY ONLY <2>1
    <3>1. PICK i \in Interfaces, d \in Nat :
            /\ i = Head(wire[1]).itf /\ d = Head(wire[1]).data
            /\ d = Len(injected[i]) + 1 /\ d <= Len(read[i])
      <4> DEFINE i == Head(wire[1]).itf
                 d == Head(wire[1]).data
      <4>1. i \in Interfaces /\ d = Len(injected[i]) + 1 /\ d <= Len(read[i])
        BY <1>t, <1>r, <2>1, <2>3, NextInput
      <4>2. injected[i] \in Seq(Nat)
        BY ONLY <1>r, <4>1 DEF ReportsType
      <4> HIDE DEF i, d
      <4>3. d \in Nat
        BY ONLY <4>1, <4>2
      <4> QED
        BY ONLY <4>1, <4>3, Zenon DEF i, d
    <3>2. injected' = [injected EXCEPT ![i] = Append(injected[i], d)]
      BY ONLY <2>1, <2>3, <3>1 DEF Injected
    <3>3. injected[i] \in Seq(Nat)
      BY ONLY <1>r, <3>1 DEF ReportsType
    <3>4. /\ injected'[i] = Append(injected[i], d)
          /\ \A j \in Interfaces \ {i} : injected'[j] = injected[j]
      BY ONLY <1>r, <3>1, <3>2 DEF ReportsType
    <3> DEFINE m == Len(injected[i])
    <3>5. /\ m \in Nat /\ Len(injected'[i]) = m + 1 /\ injected'[i][m + 1] = d
          /\ \A n \in 1..m : injected'[i][n] = injected[i][n]
      BY ONLY <3>3, <3>4, Longer
    <3>6. ReportsOf(i)
      BY ONLY <1>p, <3>1, ReportsEach
    <3>7. \A n \in 1..m : injected[i][n] = n
      BY ONLY <3>6 DEF ReportsOf
    <3>8. d = m + 1 /\ m + 1 <= Len(read[i])
      BY ONLY <3>1, <3>3
    <3> HIDE DEF m
    <3>9. \A n \in 1..m + 1 : injected'[i][n] = n
      BY ONLY <3>5, <3>7, <3>8
    <3>10. ReportsOf(i)'
      BY ONLY <3>0, <3>5, <3>6, <3>8, <3>9, Zenon DEF ReportsOf
    <3> QED
      <4>1. /\ i \in Interfaces
            /\ \A j \in Interfaces \ {i} :
                 pen'[j] = pen[j] /\ read'[j] = read[j] /\ made'[j] = made[j] /\ injected'[j] = injected[j]
        BY ONLY <3>0, <3>1, <3>4
      <4> QED
        BY ONLY <1>0, <1>p, <3>10, <4>1, ReportsOne
  <2> QED
    BY <2>2, <2>3
<1>10. CASE RelayEvent
  <2>1. Reported
    BY <1>10, RelayEventDoes
  <2> QED
    BY <1>0, <1>p, <2>1, ReportsKept DEF Reported
<1>11. CASE DestroyDevices
  BY <1>0, <1>t, <1>p, <1>11, DestroyDevicesDoes, ReportsKept DEF Reported
<1>12. CASE PollFails
  BY <1>0, <1>t, <1>p, <1>12, PollFailsDoes, ReportsKept DEF Reported
<1>13. CASE Killed
  BY <1>0, <1>t, <1>p, <1>13, KilledDoes, ReportsKept DEF Reported
<1>14. CASE AcceptFails
  BY <1>0, <1>t, <1>p, <1>14, AcceptFailsDoes, ReportsKept DEF Reported
<1>15. ASSUME NEW ok \in BOOLEAN, OpenHidraw(ok) PROVE Reports'
  BY <1>0, <1>t, <1>p, <1>15, OpenHidrawDoes, ReportsKept DEF Reported
<1>16. ASSUME NEW ok \in BOOLEAN, GrabTablet(ok) PROVE Reports'
  BY <1>0, <1>t, <1>p, <1>16, GrabTabletDoes, ReportsKept DEF Reported
<1>17. ASSUME NEW ok \in BOOLEAN, ConnectTcp(ok) PROVE Reports'
  BY <1>0, <1>t, <1>p, <1>17, ConnectTcpDoes, ReportsKept DEF Reported
<1>18. ASSUME NEW ok \in BOOLEAN, ListenTcp(ok) PROVE Reports'
  BY <1>0, <1>t, <1>p, <1>18, ListenTcpDoes, ReportsKept DEF Reported
<1>19. ASSUME NEW ok \in BOOLEAN, CreateDevice(ok) PROVE Reports'
  BY <1>0, <1>t, <1>p, <1>19, CreateDeviceDoes, ReportsKept DEF Reported
<1>20. ASSUME NEW i \in Interfaces, PenReports(i) PROVE Reports'
  <2>1. /\ made' = [made EXCEPT ![i] = made[i] + 1]
        /\ pen' = [pen EXCEPT ![i] = Append(pen[i], made[i] + 1)]
        /\ read' = read /\ injected' = injected
    BY <1>20, PenReportsDoes
  <2>2. pen[i] \in Seq(Nat) /\ made[i] \in Nat /\ read[i] \in Seq(Nat)
    BY ONLY <1>r DEF ReportsType
  <2>3. /\ made'[i] = made[i] + 1 /\ pen'[i] = Append(pen[i], made[i] + 1)
        /\ \A j \in Interfaces \ {i} : pen'[j] = pen[j] /\ made'[j] = made[j]
    BY ONLY <1>r, <2>1 DEF ReportsType
  <2> DEFINE p == Len(pen[i])
             r == Len(read[i])
  <2>4. /\ p \in Nat /\ Len(pen'[i]) = p + 1 /\ pen'[i][p + 1] = made[i] + 1
        /\ \A n \in 1..p : pen'[i][n] = pen[i][n]
    BY ONLY <2>2, <2>3, Longer
  <2>5. ReportsOf(i)
    BY ONLY <1>p, ReportsEach
  <2>6. made[i] = r + p /\ \A n \in 1..p : pen[i][n] = r + n
    BY ONLY <2>5 DEF ReportsOf
  <2>7. r \in Nat
    BY ONLY <2>2
  <2> HIDE DEF p, r
  <2>8. made[i] + 1 = r + (p + 1) /\ \A n \in 1..p + 1 : pen'[i][n] = r + n
    BY ONLY <2>4, <2>6, <2>7
  <2>9. ReportsOf(i)'
    BY ONLY <2>1, <2>3, <2>4, <2>5, <2>8, Zenon DEF ReportsOf, r
  <2> QED
    BY ONLY <1>0, <1>p, <2>1, <2>3, <2>9, ReportsOne
<1>21. ASSUME NEW i \in Interfaces, NEW type \in EventTypes, KernelAsks(i, type) PROVE Reports'
  BY <1>0, <1>t, <1>p, <1>21, KernelAsksDoes, ReportsKept DEF Reported
<1>22. CASE UNCHANGED bridgeVars
  BY <1>0, <1>p, <1>22, ReportsKept DEF bridgeVars, deviceVars
<1> QED
  BY <1>1, <1>2, <1>3, <1>4, <1>5, <1>6, <1>7, <1>8, <1>9, <1>10, <1>11,
     <1>12, <1>13, <1>14, <1>15, <1>16, <1>17, <1>18, <1>19, <1>20, <1>21, <1>22
    DEF BridgeNext, ClientSteps, HostSteps, EventTypes

-----------------------------------------------------------------------------
(* Reports on the way *)

\* A frame that is not a report of the interface changes nothing.
LEMMA CarriesOther ==
    ASSUME NEW w \in Seq(UpFrames), NEW a \in Nat, NEW b \in Nat, NEW i, NEW f, ~IsInput(f, i),
           CarriesSome(w, a, b, i)
    PROVE  /\ CarriesSome(Append(w, f), a, b, i)
           /\ CarriesEvery(w, a, b, i) => CarriesEvery(Append(w, f), a, b, i)
<1> DEFINE v == Append(w, f)
           n == Len(w)
<1>1. n \in Nat /\ Len(v) = n + 1 /\ v[n + 1] = f /\ \A k \in 1..n : v[k] = w[k]
  BY Longer
<1> HIDE DEF v, n
<1>2. ASSUME NEW k \in 1..n + 1, IsInput(v[k], i) PROVE k \in 1..n /\ v[k] = w[k] /\ IsInput(w[k], i)
  <2>1. k # n + 1
    BY ONLY <1>1, <1>2, ~IsInput(f, i)
  <2>2. k \in 1..n
    BY ONLY <1>1, k \in 1..n + 1, <2>1
  <2> QED
    BY ONLY <1>1, <1>2, <2>2
<1>3. \A j \in 1..n : j \in 1..n + 1 /\ \A l \in 1..j : l \in 1..n
  BY ONLY <1>1
<1>4. ASSUME NEW k \in 1..n + 1, IsInput(v[k], i)
      PROVE  /\ v[k].data \in a + 1..b
             /\ \A d \in a + 1..v[k].data : \E j \in 1..k : IsInput(v[j], i) /\ v[j].data = d
  <2>1. k \in 1..n /\ v[k] = w[k] /\ IsInput(w[k], i)
    BY ONLY <1>2, <1>4
  <2>2. /\ w[k].data \in a + 1..b
        /\ \A d \in a + 1..w[k].data : \E j \in 1..k : IsInput(w[j], i) /\ w[j].data = d
    BY ONLY <2>1, CarriesSome(w, a, b, i), Zenon DEF CarriesSome, n
  <2> QED
    BY ONLY <1>1, <1>3, <2>1, <2>2, Zenon
<1>5. ASSUME NEW k \in 1..n + 1, NEW l \in 1..n + 1, IsInput(v[k], i), IsInput(v[l], i), k < l
      PROVE  v[k].data < v[l].data
  <2>1. k \in 1..n /\ v[k] = w[k] /\ IsInput(w[k], i) /\ l \in 1..n /\ v[l] = w[l] /\ IsInput(w[l], i)
    BY ONLY <1>2, <1>5
  <2>2. w[k].data < w[l].data
    BY ONLY <1>5, <2>1, CarriesSome(w, a, b, i), Zenon DEF CarriesSome, n
  <2> QED
    BY ONLY <2>1, <2>2, Zenon
<1>6. CarriesSome(v, a, b, i)
  BY ONLY <1>1, <1>4, <1>5, Zenon DEF CarriesSome
<1>7. CarriesEvery(w, a, b, i) => CarriesEvery(v, a, b, i)
  BY ONLY <1>1, <1>3, Zenon DEF CarriesEvery, n
<1> QED
  BY ONLY <1>6, <1>7 DEF v

\* The next report.
LEMMA CarriesNext ==
    ASSUME NEW w \in Seq(UpFrames), NEW a \in Nat, NEW b \in Nat, NEW i, NEW f, IsInput(f, i),
           a <= b, f.data = b + 1, CarriesSome(w, a, b, i), CarriesEvery(w, a, b, i)
    PROVE  CarriesSome(Append(w, f), a, b + 1, i) /\ CarriesEvery(Append(w, f), a, b + 1, i)
<1> DEFINE v == Append(w, f)
           n == Len(w)
<1>1. n \in Nat /\ Len(v) = n + 1 /\ v[n + 1] = f /\ \A k \in 1..n : v[k] = w[k]
  BY Longer
<1> HIDE DEF v, n
<1>2. \A k \in 1..n : k \in 1..n + 1 /\ k < n + 1 /\ \A l \in 1..k : l \in 1..n
  BY ONLY <1>1
<1>3. n + 1 \in 1..n + 1 /\ \A k \in 1..n + 1 : k = n + 1 \/ k \in 1..n
  BY ONLY <1>1
<1>4. /\ \A k \in 1..n : IsInput(w[k], i) =>
             /\ w[k].data \in a + 1..b
             /\ \A d \in a + 1..w[k].data : \E j \in 1..k : IsInput(w[j], i) /\ w[j].data = d
      /\ \A k, l \in 1..n :
           IsInput(w[k], i) /\ IsInput(w[l], i) /\ k < l => w[k].data < w[l].data
      /\ \A d \in a + 1..b : \E j \in 1..n : IsInput(w[j], i) /\ w[j].data = d
  BY ONLY CarriesSome(w, a, b, i), CarriesEvery(w, a, b, i), Zenon DEF CarriesSome, CarriesEvery, n
<1>5. ASSUME NEW d \in a + 1..b + 1
      PROVE  \E j \in 1..n + 1 : IsInput(v[j], i) /\ v[j].data = d
  <2>1. d = b + 1 \/ d \in a + 1..b
    BY ONLY d \in a + 1..b + 1, a \in Nat, b \in Nat
  <2>2. CASE d = b + 1
    BY ONLY <1>1, <1>3, <2>2, f.data = b + 1, IsInput(f, i), Zenon
  <2>3. CASE d \in a + 1..b
    BY ONLY <1>1, <1>2, <1>4, <2>3, Zenon
  <2> QED
    BY ONLY <2>1, <2>2, <2>3
<1>6. ASSUME NEW k \in 1..n + 1, IsInput(v[k], i)
      PROVE  /\ v[k].data \in a + 1..b + 1
             /\ \A d \in a + 1..v[k].data : \E j \in 1..k : IsInput(v[j], i) /\ v[j].data = d
  <2>1. CASE k = n + 1
    <3>1. v[k].data = b + 1 /\ b + 1 \in a + 1..b + 1
      BY ONLY <1>1, <2>1, f.data = b + 1, a <= b, a \in Nat, b \in Nat
    <3> QED
      BY ONLY <1>5, <2>1, <3>1, Zenon
  <2>2. CASE k \in 1..n
    <3>1. v[k] = w[k] /\ IsInput(w[k], i)
      BY ONLY <1>1, <1>6, <2>2
    <3>2. w[k].data \in a + 1..b
      BY ONLY <1>4, <2>2, <3>1
    <3>3. w[k].data \in a + 1..b + 1
      BY ONLY <3>2, a \in Nat, b \in Nat
    <3>4. \A d \in a + 1..w[k].data : \E j \in 1..k : IsInput(w[j], i) /\ w[j].data = d
      BY ONLY <1>4, <2>2, <3>1, Zenon
    <3> QED
      BY ONLY <1>1, <1>2, <2>2, <3>1, <3>3, <3>4, Zenon
  <2> QED
    BY ONLY <1>3, <2>1, <2>2, k \in 1..n + 1
<1>7. ASSUME NEW k \in 1..n + 1, NEW l \in 1..n + 1, IsInput(v[k], i), IsInput(v[l], i), k < l
      PROVE  v[k].data < v[l].data
  <2>1. k \in 1..n
    BY ONLY <1>1, <1>7
  <2>2. v[k] = w[k] /\ IsInput(w[k], i) /\ w[k].data \in a + 1..b
    BY ONLY <1>1, <1>4, <1>7, <2>1
  <2>3. CASE l = n + 1
    BY ONLY <1>1, <2>2, <2>3, f.data = b + 1, a \in Nat, b \in Nat
  <2>4. CASE l \in 1..n
    <3>1. v[l] = w[l] /\ IsInput(w[l], i)
      BY ONLY <1>1, <1>7, <2>4
    <3> QED
      BY ONLY <1>4, <1>7, <2>1, <2>2, <2>4, <3>1, Zenon
  <2> QED
    BY ONLY <1>3, <2>3, <2>4, l \in 1..n + 1
<1>8. CarriesSome(v, a, b + 1, i)
  BY ONLY <1>1, <1>6, <1>7, Zenon DEF CarriesSome
<1>9. CarriesEvery(v, a, b + 1, i)
  BY ONLY <1>1, <1>5, Zenon DEF CarriesEvery
<1> QED
  BY ONLY <1>8, <1>9 DEF v

\* A report that was read and could not be sent.
LEMMA CarriesBehind ==
    ASSUME NEW w, NEW a \in Nat, NEW b \in Nat, NEW i, CarriesSome(w, a, b, i)
    PROVE  CarriesSome(w, a, b + 1, i)
<1>1. \A d \in a + 1..b : d \in a + 1..b + 1
  OBVIOUS
<1> QED
  BY ONLY <1>1, CarriesSome(w, a, b, i), Zenon DEF CarriesSome

\* The first frame goes: a report of the interface is the one to inject next.
LEMMA CarriesTail ==
    ASSUME NEW w \in Seq(UpFrames), w # <<>>, NEW a \in Nat, NEW b \in Nat, NEW c \in Nat, NEW i,
           \/ ~IsInput(Head(w), i) /\ c = a
           \/ IsInput(Head(w), i) /\ Head(w).data = a + 1 /\ c = a + 1,
           CarriesSome(w, a, b, i)
    PROVE  /\ CarriesSome(Tail(w), c, b, i)
           /\ CarriesEvery(w, a, b, i) => CarriesEvery(Tail(w), c, b, i)
<1> DEFINE v == Tail(w)
           n == Len(v)
<1>1. /\ n \in Nat /\ Len(w) = n + 1 /\ Head(w) = w[1]
      /\ \A k \in 1..n : v[k] = w[k + 1] /\ k + 1 \in 1..n + 1
  BY TailIs
<1> HIDE DEF v, n
<1>2. /\ \A k \in 1..n + 1 : IsInput(w[k], i) =>
             /\ w[k].data \in a + 1..b
             /\ \A d \in a + 1..w[k].data : \E j \in 1..k : IsInput(w[j], i) /\ w[j].data = d
      /\ \A k, l \in 1..n + 1 :
           IsInput(w[k], i) /\ IsInput(w[l], i) /\ k < l => w[k].data < w[l].data
  BY ONLY <1>1, CarriesSome(w, a, b, i), Zenon DEF CarriesSome
<1>3. /\ 1 \in 1..n + 1 /\ \A k \in 1..n : 1 < k + 1
      /\ \A k, l \in 1..n : k < l => k + 1 < l + 1
      /\ \A k \in 1..n : \A j \in 1..k + 1 : j # 1 => j - 1 \in 1..k /\ j - 1 \in 1..n
      /\ \A j \in 1..n + 1 : j # 1 => j - 1 \in 1..n
      /\ \A j \in 1..n + 1 : (j - 1) + 1 = j
      /\ \A k \in 1..n : \A j \in 1..k + 1 : j \in 1..n + 1
  BY ONLY <1>1
<1>4. \A d : d \in c + 1..b => d \in a + 1..b
  BY ONLY c = a \/ c = a + 1, a \in Nat, b \in Nat
<1>5. ASSUME NEW j \in 1..n + 1, IsInput(w[j], i), w[j].data \in c + 1..b PROVE j # 1
  BY ONLY <1>1, <1>5, a \in Nat, b \in Nat,
     \/ ~IsInput(Head(w), i) /\ c = a
     \/ IsInput(Head(w), i) /\ Head(w).data = a + 1 /\ c = a + 1
<1>6. ASSUME NEW k \in 1..n, IsInput(v[k], i) PROVE v[k].data \in c + 1..b
  <2>1. k + 1 \in 1..n + 1 /\ v[k] = w[k + 1] /\ IsInput(w[k + 1], i) /\ w[k + 1].data \in a + 1..b
    BY ONLY <1>1, <1>2, <1>6
  <2>2. CASE ~IsInput(Head(w), i) /\ c = a
    BY ONLY <2>1, <2>2
  <2>3. CASE IsInput(Head(w), i) /\ Head(w).data = a + 1 /\ c = a + 1
    <3>1. IsInput(w[1], i) /\ w[1].data = a + 1
      BY ONLY <1>1, <2>3
    <3>2. w[1].data < w[k + 1].data
      BY ONLY <1>2, <1>3, <2>1, <3>1, Zenon
    <3> QED
      BY ONLY <2>1, <2>3, <3>1, <3>2, a \in Nat, b \in Nat
  <2> QED
    BY ONLY <2>2, <2>3, \/ ~IsInput(Head(w), i) /\ c = a
                        \/ IsInput(Head(w), i) /\ Head(w).data = a + 1 /\ c = a + 1
<1>7. ASSUME NEW k \in 1..n, IsInput(v[k], i), NEW d \in c + 1..v[k].data
      PROVE  \E j \in 1..k : IsInput(v[j], i) /\ v[j].data = d
  <2>1. k + 1 \in 1..n + 1 /\ v[k] = w[k + 1] /\ IsInput(w[k + 1], i)
    BY ONLY <1>1, <1>7
  <2>2. v[k].data \in c + 1..b
    BY ONLY <1>6, <1>7
  <2>3. d \in c + 1..b /\ d \in a + 1..w[k + 1].data
    BY ONLY <2>1, <2>2, d \in c + 1..v[k].data, c = a \/ c = a + 1, a \in Nat, b \in Nat
  <2>4. PICK j \in 1..k + 1 : IsInput(w[j], i) /\ w[j].data = d
    BY ONLY <1>2, <2>1, <2>3, Zenon
  <2>5. j # 1 /\ j \in 1..n + 1
    BY ONLY <1>3, <1>5, <2>3, <2>4, Zenon
  <2>6. j - 1 \in 1..k /\ j - 1 \in 1..n /\ (j - 1) + 1 = j
    BY ONLY <1>3, <2>5, Zenon
  <2>7. v[j - 1] = w[j]
    BY ONLY <1>1, <2>6
  <2> QED
    BY ONLY <2>4, <2>6, <2>7, Zenon
<1>8. ASSUME NEW k \in 1..n, NEW l \in 1..n, IsInput(v[k], i), IsInput(v[l], i), k < l
      PROVE  v[k].data < v[l].data
  <2>1. k + 1 \in 1..n + 1 /\ l + 1 \in 1..n + 1 /\ v[k] = w[k + 1] /\ v[l] = w[l + 1]
    BY ONLY <1>1, k \in 1..n, l \in 1..n
  <2>2. k + 1 < l + 1
    BY ONLY <1>1, <1>8, k \in 1..n, l \in 1..n
  <2>3. IsInput(w[k + 1], i) /\ IsInput(w[l + 1], i)
    BY ONLY <1>8, <2>1
  <2>4. w[k + 1].data < w[l + 1].data
    BY ONLY <1>2, <2>1, <2>2, <2>3, Zenon
  <2> QED
    BY ONLY <2>1, <2>4
<1>9. CarriesSome(v, c, b, i)
  BY ONLY <1>1, <1>6, <1>7, <1>8, Zenon DEF CarriesSome, n
<1>10. ASSUME CarriesEvery(w, a, b, i) PROVE CarriesEvery(v, c, b, i)
  <2>1. ASSUME NEW d \in c + 1..b PROVE \E j \in 1..n : IsInput(v[j], i) /\ v[j].data = d
    <3>1. PICK j \in 1..n + 1 : IsInput(w[j], i) /\ w[j].data = d
      BY ONLY <1>1, <1>4, <1>10, <2>1, Zenon DEF CarriesEvery
    <3>2. j # 1
      BY ONLY <1>5, <2>1, <3>1
    <3>3. j - 1 \in 1..n /\ (j - 1) + 1 = j
      BY ONLY <1>3, <3>2, Zenon
    <3>4. v[j - 1] = w[j]
      BY ONLY <1>1, <3>3
    <3> QED
      BY ONLY <3>1, <3>3, <3>4, Zenon
  <2> QED
    BY ONLY <2>1, Zenon DEF CarriesEvery, n
<1> QED
  BY ONLY <1>9, <1>10 DEF v

-----------------------------------------------------------------------------
(* Frames, events and replies, and where a step takes them from *)

\* A frame the client may add.
UpFrameNext(f) ==
    \/ f.type \in {"device", "descriptor", "detach"}
    \/ f.type = "input" /\ f.itf \in Interfaces
    \/ /\ wire[2] # <<>> /\ bc.pc = "frame" /\ Head(wire[2]).type # "output"
       /\ f = Frame("reply", Head(wire[2]).itf, Head(wire[2]).tx, DeviceResult(Head(wire[2])))
\* A frame the host may add.
DownFrameNext(f) ==
    \E i \in Interfaces :
      /\ kernel[i] # <<>>
      /\ f = Frame(Head(kernel[i])[1], i, IF Head(kernel[i])[1] = "output" THEN 0 ELSE Head(kernel[i])[2],
                   Head(kernel[i])[2])
UpNew == \A k \in 1..Len(wire'[1]) :
    (\E j \in 1..Len(wire[1]) : wire'[1][k] = wire[1][j]) \/ UpFrameNext(wire'[1][k])
DownNew == \A k \in 1..Len(wire'[2]) :
    (\E j \in 1..Len(wire[2]) : wire'[2][k] = wire[2][j]) \/ DownFrameNext(wire'[2][k])
KernelNew == \A i \in Interfaces : \A n \in 1..Len(kernel'[i]) :
    \/ \E m \in 1..Len(kernel[i]) : kernel'[i][n] = kernel[i][m]
    \/ kernel'[i][n][2] \in 1..asked'[i]
AskedNew == \A i \in Interfaces : \A n \in 1..asked[i] : n \in 1..asked'[i]
AnswersNew == \A a \in answers' :
    \/ a \in answers
    \/ /\ wire[1] # <<>> /\ Head(wire[1]).type = "reply"
       /\ a = <<Head(wire[1]).itf, Head(wire[1]).tx, Head(wire[1]).data>>
News == UpNew /\ DownNew /\ KernelNew /\ AskedNew /\ AnswersNew

LEMMA EventedNews ==
    ASSUME Evented
    PROVE  KernelNew /\ AskedNew /\ AnswersNew
<1> QED
  BY Zenon DEF Evented, KernelNew, AskedNew, AnswersNew

LEMMA UpSame ==
    ASSUME wire'[1] = wire[1]
    PROVE  UpNew
<1> QED
  BY Zenon DEF UpNew

LEMMA DownSame ==
    ASSUME wire'[2] = wire[2]
    PROVE  DownNew
<1> QED
  BY Zenon DEF DownNew

LEMMA UpGrows ==
    ASSUME WireType, NEW f, wire'[1] = Append(wire[1], f), UpFrameNext(f)
    PROVE  UpNew
<1> DEFINE n == Len(wire[1])
<1>1. wire[1] \in Seq(UpFrames)
  BY DEF WireType
<1>2. /\ n \in Nat /\ Len(wire'[1]) = n + 1 /\ wire'[1][n + 1] = f
      /\ \A k \in 1..n : wire'[1][k] = wire[1][k]
  BY ONLY <1>1, wire'[1] = Append(wire[1], f), Longer
<1> HIDE DEF n
<1>3. \A k \in 1..n + 1 : k = n + 1 \/ k \in 1..n
  BY ONLY <1>2
<1> QED
  BY ONLY <1>2, <1>3, UpFrameNext(f), Zenon DEF UpNew, n

LEMMA UpNewSent ==
    ASSUME WireType, NEW f, Up(f), UpFrameNext(f)
    PROVE  UpNew /\ DownNew
<1>1. wire'[1] = wire[1] \/ wire'[1] = Append(wire[1], f)
  BY ONLY Up(f) DEF Up
<1>2. UpNew
  BY <1>1, UpSame, UpGrows
<1>3. wire'[2] = wire[2]
  BY ONLY Up(f) DEF Up
<1> QED
  BY <1>2, <1>3, DownSame

LEMMA UpNewTaken ==
    ASSUME WireType, UpTaken
    PROVE  UpNew /\ DownNew
<1>1. wire[1] \in Seq(UpFrames) /\ wire[1] # <<>> /\ wire'[1] = Tail(wire[1]) /\ wire'[2] = wire[2]
  BY ONLY WireType, UpTaken DEF WireType, UpTaken
<1>2. \A k \in 1..Len(wire'[1]) : wire'[1][k] = wire[1][k + 1] /\ k + 1 \in 1..Len(wire[1])
  BY ONLY <1>1, TailIs
<1>3. UpNew
  BY ONLY <1>2, Zenon DEF UpNew
<1> QED
  BY <1>1, <1>3, DownSame

LEMMA DownNewTaken ==
    ASSUME WireType, wire[2] # <<>>, wire'[2] = Tail(wire[2])
    PROVE  DownNew
<1>1. wire[2] \in Seq(DownFrames)
  BY DEF WireType
<1>2. \A k \in 1..Len(wire'[2]) : wire'[2][k] = wire[2][k + 1] /\ k + 1 \in 1..Len(wire[2])
  BY ONLY <1>1, wire[2] # <<>>, wire'[2] = Tail(wire[2]), TailIs
<1> QED
  BY ONLY <1>2, Zenon DEF DownNew

LEMMA DownNewSent ==
    ASSUME WireType, NEW f, Down(f), DownFrameNext(f)
    PROVE  UpNew /\ DownNew
<1> DEFINE n == Len(wire[2])
<1>1. wire[2] \in Seq(DownFrames)
  BY DEF WireType
<1>2. wire'[1] = wire[1] /\ (wire'[2] = wire[2] \/ wire'[2] = Append(wire[2], f))
  BY ONLY Down(f) DEF Down
<1>3. CASE wire'[2] = Append(wire[2], f)
  <2>1. /\ n \in Nat /\ Len(wire'[2]) = n + 1 /\ wire'[2][n + 1] = f
        /\ \A k \in 1..n : wire'[2][k] = wire[2][k]
    BY ONLY <1>1, <1>3, Longer
  <2> HIDE DEF n
  <2>2. \A k \in 1..n + 1 : k = n + 1 \/ k \in 1..n
    BY ONLY <2>1
  <2> QED
    BY ONLY <1>2, <2>1, <2>2, DownFrameNext(f), UpSame, Zenon DEF DownNew, n
<1> QED
  BY ONLY <1>2, <1>3, UpSame, DownSame

LEMMA NewsNext ==
    ASSUME BridgeType, ClientPhase, HostPhase, [BridgeNext]_bridgeVars
    PROVE  News
<1>0. Interfaces' = Interfaces /\ tablets' = tablets
  BY TabletsTypeNext DEF BridgeType
<1>a. SameFields
  BY BridgeFieldsNext
<1>t. BridgeClientType /\ BridgeHostType /\ WireType /\ TabletsType
  BY DEF BridgeType
<1>e. EventsType
  BY DEF BridgeType
<1>1. CASE Attach
  <2> DEFINE f == IF bc.sent = 0 THEN Frame("device", 0, 0, Len(tablets))
                  ELSE Frame("descriptor", bc.sent, 0, tablets[bc.sent])
  <2>1. Evented /\ (Up(f) \/ wire' = wire)
    BY <1>1, <1>t, AttachDoes
  <2>2. f.type \in {"device", "descriptor"}
    BY DEF Frame
  <2> HIDE DEF f
  <2>3. UpFrameNext(f)
    BY <2>2 DEF UpFrameNext
  <2> QED
    BY <1>t, <2>1, <2>3, EventedNews, UpNewSent, UpSame, DownSame DEF News
<1>2. CASE ClientPoll
  <2>1. Evented /\ wire' = wire
    BY <1>2, <1>t, ClientPollDoes
  <2> QED
    BY <2>1, EventedNews, UpSame, DownSame DEF News
<1>3. CASE ClientFrame
  <2> DEFINE f == Frame("reply", Head(wire[2]).itf, Head(wire[2]).tx, DeviceResult(Head(wire[2])))
  <2>1. /\ Evented /\ bc.pc = "frame" /\ wire[2] # <<>> /\ wire'[2] = Tail(wire[2])
        /\ wire'[1] = wire[1] \/ (Head(wire[2]).type # "output" /\ wire'[1] = Append(wire[1], f))
    BY <1>3, <1>t, ClientFrameDoes
  <2>2. Head(wire[2]).type # "output" => UpFrameNext(f)
    BY <2>1, Zenon DEF UpFrameNext
  <2> HIDE DEF f
  <2>3. UpNew
    BY <1>t, <2>1, <2>2, UpSame, UpGrows
  <2>4. DownNew
    BY <1>t, <2>1, DownNewTaken
  <2> QED
    BY <2>1, <2>3, <2>4, EventedNews DEF News
<1>4. CASE ForwardReport
  <2>1. PICK i \in Interfaces : Evented /\ Up(Frame("input", i, 0, Head(pen[i])))
    BY <1>4, ForwardReportDoes
  <2>2. Frame("input", i, 0, Head(pen[i])).type = "input" /\ Frame("input", i, 0, Head(pen[i])).itf = i
    BY ONLY TRUE DEF Frame
  <2>3. UpFrameNext(Frame("input", i, 0, Head(pen[i])))
    BY <2>2 DEF UpFrameNext
  <2> QED
    BY <1>t, <2>1, <2>3, EventedNews, UpNewSent DEF News
<1>5. CASE Detach
  <2>1. Evented /\ Up(Frame("detach", 0, 0, 0))
    BY <1>5, <1>t, DetachDoes
  <2>2. Frame("detach", 0, 0, 0).type = "detach"
    BY DEF Frame
  <2>3. UpFrameNext(Frame("detach", 0, 0, 0))
    BY <2>2 DEF UpFrameNext
  <2> QED
    BY <1>t, <2>1, <2>3, EventedNews, UpNewSent DEF News
<1>6. CASE ReceiveDevice
  <2>1. Evented /\ (UpTaken \/ wire' = wire)
    BY <1>6, <1>t, ReceiveDeviceDoes
  <2> QED
    BY <1>t, <2>1, EventedNews, UpNewTaken, UpSame, DownSame DEF News
<1>7. CASE ReceiveDescriptor
  <2>1. Evented /\ (UpTaken \/ wire' = wire)
    BY <1>7, <1>t, ReceiveDescriptorDoes
  <2> QED
    BY <1>t, <2>1, EventedNews, UpNewTaken, UpSame, DownSame DEF News
<1>8. CASE HostPoll
  <2>1. Evented /\ wire' = wire
    BY <1>8, <1>t, HostPollDoes
  <2> QED
    BY <2>1, EventedNews, UpSame, DownSame DEF News
<1>9. CASE HostFrame
  <2>1. /\ UpTaken /\ kernel' = kernel /\ asked' = asked
        /\ answers' = (IF Head(wire[1]).type = "reply"
                       THEN answers \cup {<<Head(wire[1]).itf, Head(wire[1]).tx, Head(wire[1]).data>>}
                       ELSE answers)
    BY <1>9, <1>t, HostFrameDoes
  <2>2. wire[1] # <<>>
    BY ONLY <2>1 DEF UpTaken
  <2>3. AnswersNew
    BY ONLY <2>1, <2>2 DEF AnswersNew
  <2>4. KernelNew /\ AskedNew
    BY ONLY <2>1, Zenon DEF KernelNew, AskedNew
  <2> QED
    BY <1>t, <2>1, <2>3, <2>4, UpNewTaken DEF News
<1>10. CASE RelayEvent
  <2>1. PICK i \in Interfaces :
          /\ kernel[i] # <<>>
          /\ Down(Frame(Head(kernel[i])[1], i,
                           IF Head(kernel[i])[1] = "output" THEN 0 ELSE Head(kernel[i])[2],
                           Head(kernel[i])[2]))
          /\ kernel' = [kernel EXCEPT ![i] = Tail(kernel[i])]
          /\ asked' = asked /\ answers' = answers
    BY <1>10, RelayEventDoes
  <2>2. DownFrameNext(Frame(Head(kernel[i])[1], i,
                           IF Head(kernel[i])[1] = "output" THEN 0 ELSE Head(kernel[i])[2],
                           Head(kernel[i])[2]))
    BY ONLY <2>1, i \in Interfaces, Zenon DEF DownFrameNext
  <2>3. UpNew /\ DownNew
    BY <1>t, <2>1, <2>2, DownNewSent
  <2>4. /\ kernel[i] \in Seq(Events) /\ kernel'[i] = Tail(kernel[i])
        /\ \A j \in Interfaces \ {i} : kernel'[j] = kernel[j]
    BY ONLY <1>e, <2>1 DEF EventsType
  <2>5. \A n \in 1..Len(kernel'[i]) : kernel'[i][n] = kernel[i][n + 1] /\ n + 1 \in 1..Len(kernel[i])
    <3>1. kernel[i] \in Seq(Events) /\ kernel[i] # <<>> /\ kernel'[i] = Tail(kernel[i])
      BY ONLY <2>1, <2>4
    <3> QED
      BY ONLY <3>1, TailIs
  <2>6. ASSUME NEW j \in Interfaces, NEW n \in 1..Len(kernel'[j])
        PROVE  \E m \in 1..Len(kernel[j]) : kernel'[j][n] = kernel[j][m]
    <3>1. CASE j = i
      BY ONLY <2>5, <2>6, <3>1, Zenon
    <3>2. CASE j # i
      BY ONLY <2>4, <2>6, <3>2, Zenon
    <3> QED
      BY ONLY <3>1, <3>2
  <2>7. KernelNew
    BY ONLY <2>6, Zenon DEF KernelNew
  <2>8. AskedNew /\ AnswersNew
    BY ONLY <2>1, Zenon DEF AskedNew, AnswersNew
  <2> QED
    BY ONLY <2>3, <2>7, <2>8 DEF News
<1>11. CASE DestroyDevices
  <2>1. Evented /\ wire' = wire
    BY <1>11, <1>t, DestroyDevicesDoes
  <2> QED
    BY <2>1, EventedNews, UpSame, DownSame DEF News
<1>12. CASE PollFails
  <2>1. Evented /\ wire' = wire
    BY <1>12, <1>t, PollFailsDoes
  <2> QED
    BY <2>1, EventedNews, UpSame, DownSame DEF News
<1>13. CASE Killed
  <2>1. Evented /\ wire' = wire
    BY <1>13, <1>t, KilledDoes
  <2> QED
    BY <2>1, EventedNews, UpSame, DownSame DEF News
<1>14. CASE AcceptFails
  <2>1. Evented /\ wire' = wire
    BY <1>14, <1>t, AcceptFailsDoes
  <2> QED
    BY <2>1, EventedNews, UpSame, DownSame DEF News
<1>15. ASSUME NEW ok \in BOOLEAN, OpenHidraw(ok) PROVE News
  <2>1. Evented /\ wire' = wire
    BY <1>15, <1>t, OpenHidrawDoes
  <2> QED
    BY <2>1, EventedNews, UpSame, DownSame DEF News
<1>16. ASSUME NEW ok \in BOOLEAN, GrabTablet(ok) PROVE News
  <2>1. Evented /\ wire' = wire
    BY <1>16, <1>t, GrabTabletDoes
  <2> QED
    BY <2>1, EventedNews, UpSame, DownSame DEF News
<1>17. ASSUME NEW ok \in BOOLEAN, ConnectTcp(ok) PROVE News
  <2>1. Evented /\ wire' = wire
    BY <1>17, <1>t, ConnectTcpDoes
  <2> QED
    BY <2>1, EventedNews, UpSame, DownSame DEF News
<1>18. ASSUME NEW ok \in BOOLEAN, ListenTcp(ok) PROVE News
  <2>1. Evented /\ wire' = wire
    BY <1>18, <1>t, ListenTcpDoes
  <2> QED
    BY <2>1, EventedNews, UpSame, DownSame DEF News
<1>19. ASSUME NEW ok \in BOOLEAN, CreateDevice(ok) PROVE News
  <2>1. Evented /\ wire' = wire
    BY <1>19, <1>t, CreateDeviceDoes
  <2> QED
    BY <2>1, EventedNews, UpSame, DownSame DEF News
<1>20. ASSUME NEW i \in Interfaces, PenReports(i) PROVE News
  <2>1. Evented /\ wire' = wire
    BY <1>20, <1>t, PenReportsDoes
  <2> QED
    BY <2>1, EventedNews, UpSame, DownSame DEF News
<1>21. ASSUME NEW i \in Interfaces, NEW type \in EventTypes, KernelAsks(i, type) PROVE News
  <2>1. /\ asked' = [asked EXCEPT ![i] = asked[i] + 1]
        /\ kernel' = [kernel EXCEPT ![i] = Append(kernel[i], <<type, asked[i] + 1>>)]
        /\ wire' = wire /\ answers' = answers
    BY <1>21, KernelAsksDoes
  <2>2. kernel[i] \in Seq(Events) /\ \A j \in Interfaces : asked[j] \in Nat
    BY ONLY <1>e DEF EventsType
  <2>3. /\ kernel'[i] = Append(kernel[i], <<type, asked[i] + 1>>) /\ asked'[i] = asked[i] + 1
        /\ \A j \in Interfaces \ {i} : kernel'[j] = kernel[j] /\ asked'[j] = asked[j]
    BY ONLY <1>e, <2>1 DEF EventsType
  <2> DEFINE n == Len(kernel[i])
  <2>4. /\ n \in Nat /\ Len(kernel'[i]) = n + 1 /\ kernel'[i][n + 1] = <<type, asked[i] + 1>>
        /\ \A k \in 1..n : kernel'[i][k] = kernel[i][k]
    BY ONLY <2>2, <2>3, Longer
  <2>5. kernel'[i][n + 1][2] \in 1..asked'[i]
    BY ONLY <2>2, <2>3, <2>4
  <2> HIDE DEF n
  <2>6. \A k \in 1..n + 1 : k = n + 1 \/ k \in 1..n
    BY ONLY <2>4
  <2>7. ASSUME NEW j \in Interfaces, NEW k \in 1..Len(kernel'[j])
        PROVE  \/ \E m \in 1..Len(kernel[j]) : kernel'[j][k] = kernel[j][m]
               \/ kernel'[j][k][2] \in 1..asked'[j]
    <3>1. CASE j = i
      BY ONLY <2>4, <2>5, <2>6, <2>7, <3>1, Zenon DEF n
    <3>2. CASE j # i
      BY ONLY <2>3, <2>7, <3>2, Zenon
    <3> QED
      BY ONLY <3>1, <3>2
  <2>8. KernelNew
    BY ONLY <2>7, Zenon DEF KernelNew
  <2>9. \A j \in Interfaces : \A k \in 1..asked[j] : k \in 1..asked'[j]
    BY ONLY <2>2, <2>3
  <2>10. AskedNew
    BY ONLY <2>9 DEF AskedNew
  <2>11. AnswersNew
    BY ONLY <2>1, Zenon DEF AnswersNew
  <2> QED
    BY ONLY <2>1, <2>8, <2>10, <2>11, UpSame, DownSame DEF News
<1>22. CASE UNCHANGED bridgeVars
  <2>1. Evented /\ wire' = wire
    BY ONLY <1>22 DEF bridgeVars, Evented
  <2> QED
    BY <2>1, EventedNews, UpSame, DownSame DEF News
<1> QED
  BY <1>1, <1>2, <1>3, <1>4, <1>5, <1>6, <1>7, <1>8, <1>9, <1>10, <1>11,
     <1>12, <1>13, <1>14, <1>15, <1>16, <1>17, <1>18, <1>19, <1>20, <1>21, <1>22
    DEF BridgeNext, ClientSteps, HostSteps, EventTypes

LEMMA AddressedNext ==
    ASSUME BridgeType, ClientPhase, HostPhase, Addressed, [BridgeNext]_bridgeVars
    PROVE  Addressed'
<1>1. UpNew /\ Interfaces' = Interfaces
  BY NewsNext, TabletsTypeNext DEF News, BridgeType
<1>2. ASSUME NEW k \in 1..Len(wire'[1]), wire'[1][k].type = "input" PROVE wire'[1][k].itf \in Interfaces
  <2>1. CASE \E j \in 1..Len(wire[1]) : wire'[1][k] = wire[1][j]
    BY ONLY <1>2, <2>1, Addressed, Zenon DEF Addressed
  <2>2. CASE UpFrameNext(wire'[1][k])
    BY ONLY <1>2, <2>2 DEF UpFrameNext, Frame
  <2> QED
    BY ONLY <1>1, <1>2, <2>1, <2>2, Zenon DEF UpNew
<1> QED
  BY ONLY <1>1, <1>2, Zenon DEF Addressed

-----------------------------------------------------------------------------
(* Requests, replies, and the reports on the connection *)

LEMMA RequestsNext ==
    ASSUME BridgeType, OneModel, ClientPhase, HostPhase, Requests, [BridgeNext]_bridgeVars
    PROVE  Requests'
<1>1. News /\ Interfaces' = Interfaces /\ tablets' = tablets
  BY NewsNext, TabletsTypeNext DEF BridgeType
<1>2. \A i \in Interfaces : \A n \in 1..Len(kernel[i]) : kernel[i][n][2] \in 1..asked[i]
  BY Zenon DEF Requests
<1>3. \A k \in 1..Len(wire[2]) :
        /\ wire[2][k].itf \in Interfaces /\ wire[2][k].data \in 1..asked[wire[2][k].itf]
        /\ wire[2][k].type # "output" => wire[2][k].tx = wire[2][k].data
  BY Zenon DEF Requests
<1>4. \A k \in 1..Len(wire[1]) : wire[1][k].type = "reply" =>
        /\ wire[1][k].itf \in Interfaces /\ wire[1][k].tx \in 1..asked[wire[1][k].itf]
        /\ wire[1][k].data = <<tablets[1], wire[1][k].itf, wire[1][k].tx>>
  BY Zenon DEF Requests
<1>5. \A a \in answers :
        /\ a[1] \in Interfaces /\ a[2] \in 1..asked[a[1]]
        /\ a[3] = <<tablets[1], a[1], a[2]>>
  BY Zenon DEF Requests
<1>6. ASSUME NEW i \in Interfaces, NEW n \in 1..Len(kernel'[i]) PROVE kernel'[i][n][2] \in 1..asked'[i]
  <2>1. \/ \E m \in 1..Len(kernel[i]) : kernel'[i][n] = kernel[i][m]
        \/ kernel'[i][n][2] \in 1..asked'[i]
    BY ONLY <1>1, <1>6, Zenon DEF News, KernelNew
  <2>2. CASE \E m \in 1..Len(kernel[i]) : kernel'[i][n] = kernel[i][m]
    <3>1. kernel'[i][n][2] \in 1..asked[i]
      BY ONLY <1>2, <1>6, <2>2, Zenon
    <3> QED
      BY ONLY <1>1, <1>6, <3>1, Zenon DEF News, AskedNew
  <2> QED
    BY ONLY <2>1, <2>2
<1>7. ASSUME NEW k \in 1..Len(wire'[2])
      PROVE  /\ wire'[2][k].itf \in Interfaces /\ wire'[2][k].data \in 1..asked'[wire'[2][k].itf]
             /\ wire'[2][k].type # "output" => wire'[2][k].tx = wire'[2][k].data
  <2>1. CASE \E j \in 1..Len(wire[2]) : wire'[2][k] = wire[2][j]
    <3>1. /\ wire'[2][k].itf \in Interfaces /\ wire'[2][k].data \in 1..asked[wire'[2][k].itf]
          /\ wire'[2][k].type # "output" => wire'[2][k].tx = wire'[2][k].data
      BY ONLY <1>3, <2>1, Zenon
    <3> QED
      BY ONLY <1>1, <3>1, Zenon DEF News, AskedNew
  <2>2. CASE DownFrameNext(wire'[2][k])
    <3>1. PICK i \in Interfaces :
            /\ kernel[i] # <<>>
            /\ wire'[2][k] = Frame(Head(kernel[i])[1], i,
                                   IF Head(kernel[i])[1] = "output" THEN 0 ELSE Head(kernel[i])[2],
                                   Head(kernel[i])[2])
      BY ONLY <2>2, Zenon DEF DownFrameNext
    <3>2. kernel[i] \in Seq(Events)
      BY DEF BridgeType, EventsType
    <3>3. Head(kernel[i]) = kernel[i][1] /\ 1 \in 1..Len(kernel[i])
      BY ONLY <3>1, <3>2, TailIs
    <3>4. Head(kernel[i])[2] \in 1..asked[i]
      BY ONLY <1>2, <3>3, Zenon
    <3>5. Head(kernel[i])[2] \in 1..asked'[i]
      BY ONLY <1>1, <3>4, Zenon DEF News, AskedNew
    <3>6. /\ wire'[2][k].itf = i /\ wire'[2][k].data = Head(kernel[i])[2]
          /\ wire'[2][k].type # "output" => wire'[2][k].tx = Head(kernel[i])[2]
      BY ONLY <3>1 DEF Frame
    <3> QED
      BY ONLY <3>5, <3>6
  <2> QED
    BY ONLY <1>1, <1>7, <2>1, <2>2, Zenon DEF News, DownNew
<1>8. ASSUME NEW k \in 1..Len(wire'[1]), wire'[1][k].type = "reply"
      PROVE  /\ wire'[1][k].itf \in Interfaces /\ wire'[1][k].tx \in 1..asked'[wire'[1][k].itf]
             /\ wire'[1][k].data = <<tablets[1], wire'[1][k].itf, wire'[1][k].tx>>
  <2>1. CASE \E j \in 1..Len(wire[1]) : wire'[1][k] = wire[1][j]
    <3>1. /\ wire'[1][k].itf \in Interfaces /\ wire'[1][k].tx \in 1..asked[wire'[1][k].itf]
          /\ wire'[1][k].data = <<tablets[1], wire'[1][k].itf, wire'[1][k].tx>>
      BY ONLY <1>4, <1>8, <2>1, Zenon
    <3> QED
      BY ONLY <1>1, <3>1, Zenon DEF News, AskedNew
  <2>2. CASE UpFrameNext(wire'[1][k])
    <3>1. /\ wire[2] # <<>> /\ bc.pc = "frame" /\ Head(wire[2]).type # "output"
          /\ wire'[1][k] = Frame("reply", Head(wire[2]).itf, Head(wire[2]).tx, DeviceResult(Head(wire[2])))
      BY ONLY <1>8, <2>2 DEF UpFrameNext
    <3>2. /\ Head(wire[2]).itf \in Interfaces /\ Head(wire[2]).data \in 1..asked[Head(wire[2]).itf]
          /\ Head(wire[2]).tx = Head(wire[2]).data
      BY <3>1, DownFrame DEF BridgeType
    <3>3. tablets[Head(wire[2]).itf] = tablets[1]
      BY <3>1, <3>2 DEF OneModel, Interfaces
    <3>4. /\ wire'[1][k].itf = Head(wire[2]).itf /\ wire'[1][k].tx = Head(wire[2]).data
          /\ wire'[1][k].data = <<tablets[1], Head(wire[2]).itf, Head(wire[2]).data>>
      BY ONLY <3>1, <3>2, <3>3 DEF Frame, DeviceResult
    <3>5. Head(wire[2]).data \in 1..asked'[Head(wire[2]).itf]
      BY ONLY <1>1, <3>2, Zenon DEF News, AskedNew
    <3> QED
      BY ONLY <3>2, <3>4, <3>5
  <2> QED
    BY ONLY <1>1, <1>8, <2>1, <2>2, Zenon DEF News, UpNew
<1>9. ASSUME NEW a \in answers'
      PROVE  /\ a[1] \in Interfaces /\ a[2] \in 1..asked'[a[1]]
             /\ a[3] = <<tablets[1], a[1], a[2]>>
  <2>1. CASE a \in answers
    <3>1. /\ a[1] \in Interfaces /\ a[2] \in 1..asked[a[1]] /\ a[3] = <<tablets[1], a[1], a[2]>>
      BY ONLY <1>5, <2>1
    <3> QED
      BY ONLY <1>1, <3>1, Zenon DEF News, AskedNew
  <2>2. CASE /\ wire[1] # <<>> /\ Head(wire[1]).type = "reply"
             /\ a = <<Head(wire[1]).itf, Head(wire[1]).tx, Head(wire[1]).data>>
    <3>1. Head(wire[1]) = wire[1][1] /\ 1 \in 1..Len(wire[1])
      BY <2>2, HeadUp DEF BridgeType
    <3>2. /\ Head(wire[1]).itf \in Interfaces /\ Head(wire[1]).tx \in 1..asked[Head(wire[1]).itf]
          /\ Head(wire[1]).data = <<tablets[1], Head(wire[1]).itf, Head(wire[1]).tx>>
      BY ONLY <1>4, <2>2, <3>1, Zenon
    <3>3. Head(wire[1]).tx \in 1..asked'[Head(wire[1]).itf]
      BY ONLY <1>1, <3>2, Zenon DEF News, AskedNew
    <3>4. a[1] = Head(wire[1]).itf /\ a[2] = Head(wire[1]).tx /\ a[3] = Head(wire[1]).data
      BY ONLY <2>2
    <3> QED
      BY ONLY <3>2, <3>3, <3>4
  <2> QED
    BY ONLY <1>1, <1>9, <2>1, <2>2, Zenon DEF News, AnswersNew
<1> QED
  BY ONLY <1>1, <1>6, <1>7, <1>8, <1>9, Zenon DEF Requests

LEMMA UnreadKept ==
    ASSUME Unread, Interfaces' = Interfaces, read' = read,
           bc'.pc \in {"open", "connect"} => bc.pc \in {"open", "connect"}
    PROVE  Unread'
<1> QED
  BY Zenon DEF Unread

LEMMA UnreadNext ==
    ASSUME BridgeType, ClientPhase, HostPhase, Unread, [BridgeNext]_bridgeVars
    PROVE  Unread'
<1>0. Interfaces' = Interfaces /\ tablets' = tablets
  BY TabletsTypeNext DEF BridgeType
<1>a. SameFields
  BY BridgeFieldsNext
<1>t. BridgeClientType /\ BridgeHostType /\ WireType /\ TabletsType
  BY DEF BridgeType
<1>u. Unread
  OBVIOUS
<1>1. CASE Attach
  <2>1. read' = read /\ (bc'.pc \in {"open", "connect"} => bc.pc \in {"open", "connect"})
    BY <1>1, <1>t, AttachDoes DEF Reported, ClientGoes, ClientTurns
  <2> QED
    BY ONLY <1>0, <1>u, <2>1, UnreadKept
<1>2. CASE ClientPoll
  <2>1. read' = read /\ (bc'.pc \in {"open", "connect"} => bc.pc \in {"open", "connect"})
    BY <1>2, <1>t, ClientPollDoes DEF Reported, ClientGoes, ClientTurns
  <2> QED
    BY ONLY <1>0, <1>u, <2>1, UnreadKept
<1>3. CASE ClientFrame
  <2>1. read' = read /\ (bc'.pc \in {"open", "connect"} => bc.pc \in {"open", "connect"})
    BY <1>3, <1>t, ClientFrameDoes DEF Reported, ClientGoes, ClientTurns
  <2> QED
    BY ONLY <1>0, <1>u, <2>1, UnreadKept
<1>4. CASE ForwardReport
  <2>1. bc'.pc \notin {"open", "connect"}
    BY <1>4, ForwardReportDoes DEF ClientTurns
  <2> QED
    BY ONLY <2>1, Zenon DEF Unread
<1>5. CASE Detach
  <2>1. read' = read /\ (bc'.pc \in {"open", "connect"} => bc.pc \in {"open", "connect"})
    BY <1>5, <1>t, DetachDoes DEF Reported, ClientGoes, ClientTurns
  <2> QED
    BY ONLY <1>0, <1>u, <2>1, UnreadKept
<1>6. CASE ReceiveDevice
  <2>1. read' = read /\ (bc'.pc \in {"open", "connect"} => bc.pc \in {"open", "connect"})
    BY <1>6, <1>t, ReceiveDeviceDoes DEF Reported, ClientGoes, ClientTurns
  <2> QED
    BY ONLY <1>0, <1>u, <2>1, UnreadKept
<1>7. CASE ReceiveDescriptor
  <2>1. read' = read /\ (bc'.pc \in {"open", "connect"} => bc.pc \in {"open", "connect"})
    BY <1>7, <1>t, ReceiveDescriptorDoes DEF Reported, ClientGoes, ClientTurns
  <2> QED
    BY ONLY <1>0, <1>u, <2>1, UnreadKept
<1>8. CASE HostPoll
  <2>1. read' = read /\ (bc'.pc \in {"open", "connect"} => bc.pc \in {"open", "connect"})
    BY <1>8, <1>t, HostPollDoes DEF Reported, ClientGoes, ClientTurns
  <2> QED
    BY ONLY <1>0, <1>u, <2>1, UnreadKept
<1>9. CASE HostFrame
  <2>1. read' = read /\ (bc'.pc \in {"open", "connect"} => bc.pc \in {"open", "connect"})
    BY <1>9, <1>t, HostFrameDoes DEF Reported, ClientGoes, ClientTurns
  <2> QED
    BY ONLY <1>0, <1>u, <2>1, UnreadKept
<1>10. CASE RelayEvent
  <2>1. read' = read /\ (bc'.pc \in {"open", "connect"} => bc.pc \in {"open", "connect"})
    BY <1>10, <1>t, RelayEventDoes DEF Reported, ClientGoes, ClientTurns
  <2> QED
    BY ONLY <1>0, <1>u, <2>1, UnreadKept
<1>11. CASE DestroyDevices
  <2>1. read' = read /\ (bc'.pc \in {"open", "connect"} => bc.pc \in {"open", "connect"})
    BY <1>11, <1>t, DestroyDevicesDoes DEF Reported, ClientGoes, ClientTurns
  <2> QED
    BY ONLY <1>0, <1>u, <2>1, UnreadKept
<1>12. CASE PollFails
  <2>1. read' = read /\ (bc'.pc \in {"open", "connect"} => bc.pc \in {"open", "connect"})
    BY <1>12, <1>t, PollFailsDoes DEF Reported, ClientGoes, ClientTurns
  <2> QED
    BY ONLY <1>0, <1>u, <2>1, UnreadKept
<1>13. CASE Killed
  <2>1. read' = read /\ (bc'.pc \in {"open", "connect"} => bc.pc \in {"open", "connect"})
    BY <1>13, <1>t, KilledDoes DEF Reported, ClientGoes, ClientTurns
  <2> QED
    BY ONLY <1>0, <1>u, <2>1, UnreadKept
<1>14. CASE AcceptFails
  <2>1. read' = read /\ (bc'.pc \in {"open", "connect"} => bc.pc \in {"open", "connect"})
    BY <1>14, <1>t, AcceptFailsDoes DEF Reported, ClientGoes, ClientTurns
  <2> QED
    BY ONLY <1>0, <1>u, <2>1, UnreadKept
<1>15. ASSUME NEW ok \in BOOLEAN, OpenHidraw(ok) PROVE Unread'
  <2>1. read' = read /\ (bc'.pc \in {"open", "connect"} => bc.pc \in {"open", "connect"})
    BY <1>15, <1>t, OpenHidrawDoes DEF Reported, ClientGoes, ClientTurns
  <2> QED
    BY ONLY <1>0, <1>u, <2>1, UnreadKept
<1>16. ASSUME NEW ok \in BOOLEAN, GrabTablet(ok) PROVE Unread'
  <2>1. read' = read /\ (bc'.pc \in {"open", "connect"} => bc.pc \in {"open", "connect"})
    BY <1>16, <1>t, GrabTabletDoes DEF Reported, ClientGoes, ClientTurns
  <2> QED
    BY ONLY <1>0, <1>u, <2>1, UnreadKept
<1>17. ASSUME NEW ok \in BOOLEAN, ConnectTcp(ok) PROVE Unread'
  <2>1. read' = read /\ (bc'.pc \in {"open", "connect"} => bc.pc \in {"open", "connect"})
    BY <1>17, <1>t, ConnectTcpDoes DEF Reported, ClientGoes, ClientTurns
  <2> QED
    BY ONLY <1>0, <1>u, <2>1, UnreadKept
<1>18. ASSUME NEW ok \in BOOLEAN, ListenTcp(ok) PROVE Unread'
  <2>1. read' = read /\ (bc'.pc \in {"open", "connect"} => bc.pc \in {"open", "connect"})
    BY <1>18, <1>t, ListenTcpDoes DEF Reported, ClientGoes, ClientTurns
  <2> QED
    BY ONLY <1>0, <1>u, <2>1, UnreadKept
<1>19. ASSUME NEW ok \in BOOLEAN, CreateDevice(ok) PROVE Unread'
  <2>1. read' = read /\ (bc'.pc \in {"open", "connect"} => bc.pc \in {"open", "connect"})
    BY <1>19, <1>t, CreateDeviceDoes DEF Reported, ClientGoes, ClientTurns
  <2> QED
    BY ONLY <1>0, <1>u, <2>1, UnreadKept
<1>20. ASSUME NEW i \in Interfaces, PenReports(i) PROVE Unread'
  <2>1. read' = read /\ (bc'.pc \in {"open", "connect"} => bc.pc \in {"open", "connect"})
    BY <1>20, <1>t, PenReportsDoes DEF Reported, ClientGoes, ClientTurns
  <2> QED
    BY ONLY <1>0, <1>u, <2>1, UnreadKept
<1>21. ASSUME NEW i \in Interfaces, NEW type \in EventTypes, KernelAsks(i, type) PROVE Unread'
  <2>1. read' = read /\ (bc'.pc \in {"open", "connect"} => bc.pc \in {"open", "connect"})
    BY <1>21, <1>t, KernelAsksDoes DEF Reported, ClientGoes, ClientTurns
  <2> QED
    BY ONLY <1>0, <1>u, <2>1, UnreadKept
<1>22. CASE UNCHANGED bridgeVars
  <2>1. read' = read /\ (bc'.pc \in {"open", "connect"} => bc.pc \in {"open", "connect"})
    BY <1>22 DEF bridgeVars, deviceVars
  <2> QED
    BY ONLY <1>0, <1>u, <2>1, UnreadKept
<1> QED
  BY <1>1, <1>2, <1>3, <1>4, <1>5, <1>6, <1>7, <1>8, <1>9, <1>10, <1>11,
     <1>12, <1>13, <1>14, <1>15, <1>16, <1>17, <1>18, <1>19, <1>20, <1>21, <1>22
    DEF BridgeNext, ClientSteps, HostSteps, EventTypes

\* The reports on the connection, as one formula of the interface.
InputsOf(i) ==
    /\ CarriesSome(wire[1], Len(injected[i]), Len(read[i]), i)
    /\ Both => CarriesEvery(wire[1], Len(injected[i]), Len(read[i]), i)

LEMMA InputsEach == Inputs <=> \A i \in Interfaces : InputsOf(i)
<1> QED
  BY Zenon DEF Inputs, InputsOf

LEMMA LengthsIn ==
    ASSUME BridgeType, Reports, NEW i \in Interfaces
    PROVE  /\ Len(injected[i]) \in Nat /\ Len(read[i]) \in Nat /\ Len(injected[i]) <= Len(read[i])
           /\ injected[i] \in Seq(Nat) /\ read[i] \in Seq(Nat) /\ pen[i] \in Seq(Nat)
<1>1. injected[i] \in Seq(Nat) /\ read[i] \in Seq(Nat) /\ pen[i] \in Seq(Nat)
  BY DEF BridgeType, ReportsType
<1>2. Len(injected[i]) <= Len(read[i])
  BY Zenon DEF Reports
<1> QED
  BY ONLY <1>1, <1>2

LEMMA InputsOfKept ==
    ASSUME NEW i \in Interfaces, InputsOf(i), wire'[1] = wire[1], read'[i] = read[i],
           injected'[i] = injected[i], Both' => Both
    PROVE  InputsOf(i)'
<1>1. /\ CarriesSome(wire'[1], Len(injected'[i]), Len(read'[i]), i)
      /\ Both => CarriesEvery(wire'[1], Len(injected'[i]), Len(read'[i]), i)
  BY Zenon DEF InputsOf
<1> QED
  BY ONLY <1>1, Both' => Both DEF InputsOf, CarriesSome, CarriesEvery, IsInput

LEMMA InputsKept ==
    ASSUME Inputs, Interfaces' = Interfaces, wire'[1] = wire[1], read' = read,
           injected' = injected, Both' => Both
    PROVE  Inputs'
<1>1. \A i \in Interfaces : InputsOf(i)'
  BY InputsEach, InputsOfKept
<1> QED
  BY <1>1, Zenon DEF Inputs, InputsOf

\* A frame that is not a report of the interface is added,
LEMMA InputsOfSent ==
    ASSUME BridgeType, Reports, NEW i \in Interfaces, InputsOf(i), NEW f, ~IsInput(f, i),
           wire'[1] = Append(wire[1], f), read'[i] = read[i], injected'[i] = injected[i], Both' => Both
    PROVE  InputsOf(i)'
<1> DEFINE w == Append(wire[1], f)
           a == Len(injected[i])
           b == Len(read[i])
<1>1. wire[1] \in Seq(UpFrames) /\ a \in Nat /\ b \in Nat
  BY LengthsIn DEF BridgeType, WireType
<1>2. CarriesSome(wire[1], a, b, i) /\ (Both => CarriesEvery(wire[1], a, b, i))
  BY Zenon DEF InputsOf
<1>3. CarriesSome(w, a, b, i) /\ (Both => CarriesEvery(w, a, b, i))
  BY ONLY <1>1, <1>2, ~IsInput(f, i), CarriesOther
<1>4. wire'[1] = w /\ Len(injected'[i]) = a /\ Len(read'[i]) = b
  OBVIOUS
<1> HIDE DEF w, a, b
<1>5. CarriesSome(wire'[1], Len(injected'[i]), Len(read'[i]), i)
  BY ONLY <1>3, <1>4, Zenon
<1>6. Both => CarriesEvery(wire'[1], Len(injected'[i]), Len(read'[i]), i)
  BY ONLY <1>3, <1>4, Zenon
<1> QED
  BY ONLY <1>5, <1>6, Both' => Both DEF InputsOf, CarriesSome, CarriesEvery, IsInput

\* or taken from the front.
LEMMA InputsOfTaken ==
    ASSUME BridgeType, Reports, NEW i \in Interfaces, InputsOf(i), UpTaken, read'[i] = read[i],
           Both' => Both, NEW c \in Nat, Len(injected'[i]) = c,
           \/ ~IsInput(Head(wire[1]), i) /\ c = Len(injected[i])
           \/ /\ IsInput(Head(wire[1]), i) /\ Head(wire[1]).data = Len(injected[i]) + 1
              /\ c = Len(injected[i]) + 1
    PROVE  InputsOf(i)'
<1> DEFINE w == wire[1]
           a == Len(injected[i])
           b == Len(read[i])
<1>1. w \in Seq(UpFrames) /\ w # <<>> /\ a \in Nat /\ b \in Nat /\ wire'[1] = Tail(w)
  BY LengthsIn DEF BridgeType, WireType, UpTaken
<1>2. CarriesSome(w, a, b, i) /\ (Both => CarriesEvery(w, a, b, i))
  BY Zenon DEF InputsOf
<1>3. \/ ~IsInput(Head(w), i) /\ c = a
      \/ IsInput(Head(w), i) /\ Head(w).data = a + 1 /\ c = a + 1
  OBVIOUS
<1>4. Len(read'[i]) = b
  OBVIOUS
<1> HIDE DEF w, a, b
<1>5. CarriesSome(Tail(w), c, b, i) /\ (Both => CarriesEvery(Tail(w), c, b, i))
  BY ONLY <1>1, <1>2, <1>3, c \in Nat, CarriesTail
<1>6. CarriesSome(wire'[1], Len(injected'[i]), Len(read'[i]), i)
  BY ONLY <1>1, <1>4, <1>5, Len(injected'[i]) = c, Zenon
<1>7. Both => CarriesEvery(wire'[1], Len(injected'[i]), Len(read'[i]), i)
  BY ONLY <1>1, <1>4, <1>5, Len(injected'[i]) = c, Zenon
<1> QED
  BY ONLY <1>6, <1>7, Both' => Both DEF InputsOf, CarriesSome, CarriesEvery, IsInput

\* Frames of other kinds, sent
LEMMA InputsSent ==
    ASSUME BridgeType, Reports, Inputs, Interfaces' = Interfaces, NEW f, f.type # "input",
           wire'[1] = wire[1] \/ wire'[1] = Append(wire[1], f), read' = read, injected' = injected,
           Both' => Both
    PROVE  Inputs'
<1>1. ASSUME NEW i \in Interfaces PROVE InputsOf(i)'
  <2>1. InputsOf(i) /\ read'[i] = read[i] /\ injected'[i] = injected[i] /\ ~IsInput(f, i)
    BY InputsEach DEF IsInput
  <2> QED
    BY <2>1, InputsOfKept, InputsOfSent
<1> QED
  BY ONLY <1>1, Interfaces' = Interfaces, Zenon DEF Inputs, InputsOf

\* or taken.
LEMMA InputsTaken ==
    ASSUME BridgeType, Reports, Inputs, Interfaces' = Interfaces, UpTaken,
           Head(wire[1]).type # "input", read' = read, injected' = injected, Both' => Both
    PROVE  Inputs'
<1>1. ASSUME NEW i \in Interfaces PROVE InputsOf(i)'
  <2>1. InputsOf(i) /\ read'[i] = read[i] /\ injected'[i] = injected[i]
    BY InputsEach
  <2>2. ~IsInput(Head(wire[1]), i)
    BY DEF IsInput
  <2>3. Len(injected[i]) \in Nat /\ Len(injected'[i]) = Len(injected[i])
    BY <2>1, LengthsIn
  <2> QED
    BY <2>1, <2>2, <2>3, InputsOfTaken
<1> QED
  BY ONLY <1>1, Interfaces' = Interfaces, Zenon DEF Inputs, InputsOf

\* While the host waits for the preamble, the next frame is of it.
LEMMA HeadPreamble ==
    ASSUME BridgeType, HostPhase, Link, bh.pc \in {"device", "descriptors"}, wire[1] # <<>>
    PROVE  Head(wire[1]).type # "input"
<1>1. Head(wire[1]) = wire[1][1] /\ 1 \in 1..Len(wire[1])
  BY HeadUp DEF BridgeType
<1>2. \A k \in 1..Len(wire[1]) :
         Received + k - 1 <= Len(tablets) => wire[1][k] = Preamble(Received + k - 1)
  BY DEF Link
<1>3. Received \in Nat /\ Received <= Len(tablets) /\ Len(tablets) \in Nat
  BY ReceivedIn DEF BridgeType, TabletsType, HostPhase, Received, BridgeHostType
<1>4. Received + 1 - 1 = Received
  BY ONLY <1>3
<1>5. wire[1][1] = Preamble(Received)
  BY ONLY <1>1, <1>2, <1>3, <1>4
<1>6. \A k : Preamble(k).type # "input"
  BY DEF Preamble, Frame
<1> QED
  BY ONLY <1>1, <1>5, <1>6

LEMMA InputsNext ==
    ASSUME BridgeType, ClientPhase, HostPhase, Link, Reports, Addressed, Unread, Inputs, [BridgeNext]_bridgeVars
    PROVE  Inputs'
<1>0. Interfaces' = Interfaces /\ tablets' = tablets
  BY TabletsTypeNext DEF BridgeType
<1>a. SameFields
  BY BridgeFieldsNext
<1>t. BridgeClientType /\ BridgeHostType /\ WireType /\ TabletsType
  BY DEF BridgeType
<1>i. Inputs
  OBVIOUS
<1>1. CASE Attach
  <2> DEFINE f == IF bc.sent = 0 THEN Frame("device", 0, 0, Len(tablets))
                  ELSE Frame("descriptor", bc.sent, 0, tablets[bc.sent])
  <2>1. Reported /\ (Up(f) \/ wire' = wire) /\ (Both' => Both)
    BY <1>1, <1>t, AttachDoes DEF Both
  <2>2. f.type # "input"
    BY DEF Frame
  <2> HIDE DEF f
  <2>3. /\ wire'[1] = wire[1] \/ wire'[1] = Append(wire[1], f)
        /\ read' = read /\ injected' = injected
    BY ONLY <2>1 DEF Up, Reported
  <2> QED
    BY <1>0, <2>1, <2>2, <2>3, InputsSent
<1>2. CASE ClientPoll
  <2>1. wire' = wire /\ Reported /\ (Both' => Both)
    BY <1>2, <1>t, ClientPollDoes DEF Both, HostGone
  <2> QED
    BY ONLY <1>0, <1>i, <2>1, InputsKept DEF Reported
<1>3. CASE ClientFrame
  <2> DEFINE f == Frame("reply", Head(wire[2]).itf, Head(wire[2]).tx, DeviceResult(Head(wire[2])))
  <2>1. /\ Reported /\ (Both' => Both)
        /\ wire'[1] = wire[1] \/ wire'[1] = Append(wire[1], f)
    BY <1>3, <1>t, ClientFrameDoes DEF Both
  <2>2. f.type # "input"
    BY DEF Frame
  <2> HIDE DEF f
  <2> QED
    BY <1>0, <2>1, <2>2, InputsSent DEF Reported
<1>4. CASE ForwardReport
  <2>1. PICK i \in Interfaces :
          /\ pen[i] # <<>> /\ Up(Frame("input", i, 0, Head(pen[i])))
          /\ read' = [read EXCEPT ![i] = Append(read[i], Head(pen[i]))]
          /\ ends' = ends /\ injected' = injected
    BY <1>4, ForwardReportDoes
  <2> DEFINE f == Frame("input", i, 0, Head(pen[i]))
             a == Len(injected[i])
             b == Len(read[i])
  <2>2. /\ injected[i] \in Seq(Nat) /\ read[i] \in Seq(Nat) /\ pen[i] \in Seq(Nat)
        /\ a \in Nat /\ b \in Nat /\ a <= b
    BY LengthsIn
  <2>3. /\ read'[i] = Append(read[i], Head(pen[i])) /\ injected'[i] = injected[i]
        /\ \A j \in Interfaces \ {i} : read'[j] = read[j] /\ injected'[j] = injected[j]
    BY <2>1 DEF BridgeType, ReportsType
  <2>4. Len(read'[i]) = b + 1
    BY ONLY <2>2, <2>3, Longer
  <2>5. /\ f.type = "input" /\ f.itf = i /\ f.data = Head(pen[i])
        /\ IsInput(f, i) /\ \A j \in Interfaces \ {i} : ~IsInput(f, j)
    BY DEF Frame, IsInput
  <2>6. Head(pen[i]) = b + 1
    <3>1. Head(pen[i]) = pen[i][1] /\ 1 \in 1..Len(pen[i])
      BY ONLY <2>1, <2>2, TailIs
    <3>2. \A n \in 1..Len(pen[i]) : pen[i][n] = Len(read[i]) + n
      BY Zenon DEF Reports
    <3> QED
      BY ONLY <3>1, <3>2
  <2>7. Up(f) /\ wire[1] \in Seq(UpFrames) /\ (Both' <=> Both)
    BY <2>1 DEF BridgeType, WireType, Both
  <2>8. InputsOf(i) /\ \A j \in Interfaces : InputsOf(j)
    BY InputsEach
  <2>9. CarriesSome(wire[1], a, b, i) /\ (Both => CarriesEvery(wire[1], a, b, i))
    BY ONLY <2>8, Zenon DEF InputsOf
  <2>10. Len(injected'[i]) = a
    BY ONLY <2>3
  <2> HIDE DEF f, a, b
  <2>11. InputsOf(i)'
    <3>1. CASE Both
      <4>1. wire'[1] = Append(wire[1], f)
        BY ONLY <2>7, <3>1 DEF Up
      <4>2. f.data = b + 1
        BY ONLY <2>5, <2>6
      <4>3. CarriesSome(Append(wire[1], f), a, b + 1, i) /\ CarriesEvery(Append(wire[1], f), a, b + 1, i)
        BY ONLY <2>2, <2>5, <2>7, <2>9, <3>1, <4>2, CarriesNext
      <4>4. CarriesSome(wire'[1], Len(injected'[i]), Len(read'[i]), i) /\ CarriesEvery(wire'[1], Len(injected'[i]), Len(read'[i]), i)
        BY ONLY <2>4, <2>10, <4>1, <4>3, Zenon
      <4> QED
        BY ONLY <4>4 DEF InputsOf, CarriesSome, CarriesEvery, IsInput
    <3>2. CASE ~Both
      <4>1. wire'[1] = wire[1] /\ ~Both'
        BY ONLY <2>7, <3>2 DEF Up
      <4>2. CarriesSome(wire[1], a, b + 1, i)
        BY ONLY <2>2, <2>9, CarriesBehind
      <4>3. CarriesSome(wire'[1], Len(injected'[i]), Len(read'[i]), i)
        BY ONLY <2>4, <2>10, <4>1, <4>2, Zenon
      <4> QED
        BY ONLY <4>1, <4>3 DEF InputsOf, CarriesSome, IsInput
    <3> QED
      BY <3>1, <3>2
  <2>12. ASSUME NEW j \in Interfaces \ {i} PROVE InputsOf(j)'
    <3>1. InputsOf(j) /\ ~IsInput(f, j) /\ read'[j] = read[j] /\ injected'[j] = injected[j] /\ j \in Interfaces
      BY ONLY <2>3, <2>5, <2>8, <2>12
    <3>2. wire'[1] = wire[1] \/ wire'[1] = Append(wire[1], f)
      BY ONLY <2>7 DEF Up
    <3> QED
      BY <2>7, <3>1, <3>2, InputsOfKept, InputsOfSent
  <2>13. \A j \in Interfaces : InputsOf(j)'
    BY ONLY <2>11, <2>12
  <2> QED
    BY ONLY <1>0, <2>13, Zenon DEF Inputs, InputsOf
<1>5. CASE Detach
  <2> DEFINE f == Frame("detach", 0, 0, 0)
  <2>1. Reported /\ Up(f) /\ (Both' => Both)
    BY <1>5, <1>t, DetachDoes DEF Both
  <2>2. f.type # "input"
    BY DEF Frame
  <2> HIDE DEF f
  <2>3. /\ wire'[1] = wire[1] \/ wire'[1] = Append(wire[1], f)
        /\ read' = read /\ injected' = injected
    BY ONLY <2>1 DEF Up, Reported
  <2> QED
    BY <1>0, <2>1, <2>2, <2>3, InputsSent
<1>6. CASE ReceiveDevice
  <2>1. Reported /\ (UpTaken \/ wire' = wire) /\ (Both' => Both) /\ bh.pc \in {"device", "descriptors"}
    BY <1>6, <1>t, ReceiveDeviceDoes DEF Both, HostGone
  <2>2. CASE UpTaken
    <3>1. Head(wire[1]).type # "input"
      BY <2>1, <2>2, HeadPreamble DEF UpTaken
    <3> QED
      BY <1>0, <2>1, <2>2, <3>1, InputsTaken DEF Reported
  <2>3. CASE wire' = wire
    BY ONLY <1>0, <1>i, <2>1, <2>3, InputsKept DEF Reported
  <2> QED
    BY <2>1, <2>2, <2>3
<1>7. CASE ReceiveDescriptor
  <2>1. Reported /\ (UpTaken \/ wire' = wire) /\ (Both' => Both) /\ bh.pc \in {"device", "descriptors"}
    BY <1>7, <1>t, ReceiveDescriptorDoes DEF Both, HostGone
  <2>2. CASE UpTaken
    <3>1. Head(wire[1]).type # "input"
      BY <2>1, <2>2, HeadPreamble DEF UpTaken
    <3> QED
      BY <1>0, <2>1, <2>2, <3>1, InputsTaken DEF Reported
  <2>3. CASE wire' = wire
    BY ONLY <1>0, <1>i, <2>1, <2>3, InputsKept DEF Reported
  <2> QED
    BY <2>1, <2>2, <2>3
<1>8. CASE HostPoll
  <2>1. wire' = wire /\ Reported /\ (Both' => Both)
    BY <1>8, <1>t, HostPollDoes DEF Both, HostGone
  <2> QED
    BY ONLY <1>0, <1>i, <2>1, InputsKept DEF Reported
<1>9. CASE HostFrame
  <2>1. /\ UpTaken /\ injected' = Injected(Head(wire[1])) /\ read' = read /\ (Both' => Both)
    BY <1>9, <1>t, HostFrameDoes DEF Both
  <2>2. CASE Head(wire[1]).type # "input"
    <3>1. injected' = injected
      BY ONLY <2>1, <2>2 DEF Injected
    <3> QED
      BY <1>0, <2>1, <2>2, <3>1, InputsTaken
  <2>3. CASE Head(wire[1]).type = "input"
    <3>1. /\ Head(wire[1]).itf \in Interfaces /\ IsInput(Head(wire[1]), Head(wire[1]).itf)
          /\ Head(wire[1]).data = Len(injected[Head(wire[1]).itf]) + 1
      BY <2>1, <2>3, NextInput DEF BridgeType, UpTaken
    <3>2. injected' = [injected EXCEPT ![Head(wire[1]).itf] =
                         Append(injected[Head(wire[1]).itf], Head(wire[1]).data)]
      BY ONLY <2>1, <2>3 DEF Injected
    <3>3. ASSUME NEW j \in Interfaces PROVE InputsOf(j)'
      <4>1. /\ injected[j] \in Seq(Nat) /\ Len(injected[j]) \in Nat /\ read'[j] = read[j] /\ InputsOf(j)
        BY <2>1, LengthsIn, InputsEach
      <4>2. CASE j = Head(wire[1]).itf
        <5>1. injected'[j] = Append(injected[j], Head(wire[1]).data)
          BY <3>1, <3>2, <4>2 DEF BridgeType, ReportsType
        <5>2. Len(injected'[j]) = Len(injected[j]) + 1 /\ Len(injected[j]) + 1 \in Nat
          BY ONLY <4>1, <5>1, Longer
        <5>3. IsInput(Head(wire[1]), j) /\ Head(wire[1]).data = Len(injected[j]) + 1
          BY ONLY <3>1, <4>2
        <5> QED
          BY <2>1, <4>1, <5>2, <5>3, InputsOfTaken
      <4>3. CASE j # Head(wire[1]).itf
        <5>1. injected'[j] = injected[j]
          BY <3>1, <3>2, <4>3 DEF BridgeType, ReportsType
        <5>2. ~IsInput(Head(wire[1]), j) /\ Len(injected'[j]) = Len(injected[j])
          BY ONLY <4>3, <5>1 DEF IsInput
        <5> QED
          BY <2>1, <4>1, <5>2, InputsOfTaken
      <4> QED
        BY <4>2, <4>3
    <3> QED
      BY ONLY <1>0, <3>3, Zenon DEF Inputs, InputsOf
  <2> QED
    BY <2>2, <2>3
<1>10. CASE RelayEvent
  <2>0. PICK f : Reported /\ Down(f) /\ ends' = ends
    BY <1>10, RelayEventDoes
  <2>1. Reported /\ wire'[1] = wire[1] /\ (Both' => Both)
    BY ONLY <2>0 DEF Both, Down
  <2> QED
    BY ONLY <1>0, <1>i, <2>1, InputsKept DEF Reported
<1>11. CASE DestroyDevices
  <2>1. wire' = wire /\ Reported /\ (Both' => Both)
    BY <1>11, <1>t, DestroyDevicesDoes DEF Both, HostGone
  <2> QED
    BY ONLY <1>0, <1>i, <2>1, InputsKept DEF Reported
<1>12. CASE PollFails
  <2>1. wire' = wire /\ Reported /\ (Both' => Both)
    BY <1>12, <1>t, PollFailsDoes DEF Both, HostGone
  <2> QED
    BY ONLY <1>0, <1>i, <2>1, InputsKept DEF Reported
<1>13. CASE Killed
  <2>1. wire' = wire /\ Reported /\ (Both' => Both)
    BY <1>13, <1>t, KilledDoes DEF Both, HostGone
  <2> QED
    BY ONLY <1>0, <1>i, <2>1, InputsKept DEF Reported
<1>14. CASE AcceptFails
  <2>1. wire' = wire /\ Reported /\ (Both' => Both)
    BY <1>14, <1>t, AcceptFailsDoes DEF Both, HostGone
  <2> QED
    BY ONLY <1>0, <1>i, <2>1, InputsKept DEF Reported
<1>15. ASSUME NEW ok \in BOOLEAN, OpenHidraw(ok) PROVE Inputs'
  <2>1. wire' = wire /\ Reported /\ (Both' => Both)
    BY <1>15, <1>t, OpenHidrawDoes DEF Both, HostGone
  <2> QED
    BY ONLY <1>0, <1>i, <2>1, InputsKept DEF Reported
<1>16. ASSUME NEW ok \in BOOLEAN, GrabTablet(ok) PROVE Inputs'
  <2>1. wire' = wire /\ Reported /\ (Both' => Both)
    BY <1>16, <1>t, GrabTabletDoes DEF Both, HostGone
  <2> QED
    BY ONLY <1>0, <1>i, <2>1, InputsKept DEF Reported
<1>17. ASSUME NEW ok \in BOOLEAN, ConnectTcp(ok) PROVE Inputs'
  <2>1. /\ wire' = wire /\ Reported /\ bc.pc = "connect"
        /\ (Both' => Both) \/ (bh.pc = "listen" /\ ends' = {"client", "host"})
    BY <1>17, <1>t, ConnectTcpDoes DEF Both
  <2>2. CASE Both' => Both
    BY ONLY <1>0, <1>i, <2>1, <2>2, InputsKept DEF Reported
  <2>3. ASSUME NEW i \in Interfaces PROVE InputsOf(i)'
    <3>1. wire'[1] = wire[1] /\ read'[i] = read[i] /\ injected'[i] = injected[i] /\ InputsOf(i)
      BY <2>1, InputsEach DEF Reported
    <3>2. CarriesSome(wire'[1], Len(injected'[i]), Len(read'[i]), i)
      BY ONLY <3>1, Zenon DEF InputsOf
    <3>3. read[i] = <<>> /\ Len(injected[i]) \in Nat
      BY <2>1, LengthsIn DEF Unread
    <3>4. Len(read'[i]) = 0 /\ Len(injected'[i]) \in Nat
      BY ONLY <3>1, <3>3
    <3>5. \A d \in Len(injected'[i]) + 1..Len(read'[i]) : FALSE
      BY ONLY <3>4
    <3>6. CarriesEvery(wire'[1], Len(injected'[i]), Len(read'[i]), i)
      BY ONLY <3>5, Zenon DEF CarriesEvery
    <3> QED
      BY ONLY <3>2, <3>6 DEF InputsOf, CarriesSome, CarriesEvery, IsInput
  <2> QED
    BY ONLY <1>0, <2>3, Zenon DEF Inputs, InputsOf
<1>18. ASSUME NEW ok \in BOOLEAN, ListenTcp(ok) PROVE Inputs'
  <2>1. wire' = wire /\ Reported /\ (Both' => Both)
    BY <1>18, <1>t, ListenTcpDoes DEF Both, HostGone
  <2> QED
    BY ONLY <1>0, <1>i, <2>1, InputsKept DEF Reported
<1>19. ASSUME NEW ok \in BOOLEAN, CreateDevice(ok) PROVE Inputs'
  <2>1. wire' = wire /\ Reported /\ (Both' => Both)
    BY <1>19, <1>t, CreateDeviceDoes DEF Both, HostGone
  <2> QED
    BY ONLY <1>0, <1>i, <2>1, InputsKept DEF Reported
<1>20. ASSUME NEW i \in Interfaces, PenReports(i) PROVE Inputs'
  <2>1. wire' = wire /\ read' = read /\ injected' = injected /\ (Both' => Both)
    BY <1>20, PenReportsDoes DEF Both
  <2> QED
    BY ONLY <1>0, <1>i, <2>1, InputsKept
<1>21. ASSUME NEW i \in Interfaces, NEW type \in EventTypes, KernelAsks(i, type) PROVE Inputs'
  <2>1. wire' = wire /\ Reported /\ (Both' => Both)
    BY <1>21, <1>t, KernelAsksDoes DEF Both, HostGone
  <2> QED
    BY ONLY <1>0, <1>i, <2>1, InputsKept DEF Reported
<1>22. CASE UNCHANGED bridgeVars
  <2>1. wire' = wire /\ Reported /\ (Both' => Both)
    BY <1>22 DEF bridgeVars, deviceVars, Reported, Both
  <2> QED
    BY ONLY <1>0, <1>i, <2>1, InputsKept DEF Reported
<1> QED
  BY <1>1, <1>2, <1>3, <1>4, <1>5, <1>6, <1>7, <1>8, <1>9, <1>10, <1>11,
     <1>12, <1>13, <1>14, <1>15, <1>16, <1>17, <1>18, <1>19, <1>20, <1>21, <1>22
    DEF BridgeNext, ClientSteps, HostSteps, EventTypes

-----------------------------------------------------------------------------
(* The invariant *)

LEMMA BridgeStarts ==
    ASSUME BridgeInit, BridgeAssumption
    PROVE  BridgeInv
<1>1. TabletsType /\ tablets \in BridgeTablets
  <2>1. tablets \in BridgeTablets
    BY DEF BridgeInit
  <2>2. BridgeTablets \subseteq Seq(STRING) \ {<<>>}
    BY DEF BridgeAssumption
  <2>3. tablets \in Seq(STRING) /\ tablets # <<>>
    BY ONLY <2>1, <2>2
  <2>4. Len(tablets) \in Nat \ {0}
    BY ONLY <2>3
  <2> QED
    BY ONLY <2>1, <2>3, <2>4 DEF TabletsType
<1>2. /\ bc = [pc |-> "open", code |-> -1, opened |-> 0, grabbed |-> FALSE, sent |-> 0, ready |-> {}]
      /\ bh = [pc |-> "start", code |-> -1, count |-> 0, got |-> <<>>, devices |-> 0,
               running |-> TRUE, ready |-> {}]
  BY Zenon DEF BridgeInit
<1>3. wire = <<<<>>, <<>>>> /\ ends = {} /\ answers = {}
  BY Zenon DEF BridgeInit
<1>4. /\ pen = [i \in Interfaces |-> <<>>] /\ made = [i \in Interfaces |-> 0]
      /\ read = [i \in Interfaces |-> <<>>] /\ injected = [i \in Interfaces |-> <<>>]
      /\ kernel = [i \in Interfaces |-> <<>>] /\ asked = [i \in Interfaces |-> 0]
  BY Zenon DEF BridgeInit
<1>5. /\ DOMAIN bc = {"pc", "code", "opened", "grabbed", "sent", "ready"}
      /\ bc.pc = "open" /\ bc.opened = 0 /\ bc.sent = 0 /\ bc.ready = {}
  BY ONLY <1>2
<1>6. /\ DOMAIN bh = {"pc", "code", "count", "got", "devices", "running", "ready"}
      /\ bh.pc = "start" /\ bh.got = <<>> /\ bh.devices = 0 /\ bh.ready = {}
  BY ONLY <1>2
<1>7. wire[1] = <<>> /\ wire[2] = <<>> /\ wire = <<wire[1], wire[2]>>
  BY ONLY <1>3
<1>8. \A S : <<>> \in Seq(S)
  OBVIOUS
<1>9. Len(<<>>) = 0 /\ \A n : n \notin 1..0
  OBVIOUS
<1>10. /\ \A i \in Interfaces : pen[i] = <<>> /\ read[i] = <<>> /\ injected[i] = <<>> /\ made[i] = 0
       /\ \A i \in Interfaces : kernel[i] = <<>> /\ asked[i] = 0
  BY ONLY <1>4
<1>11. BridgeClientType
  BY ONLY <1>5 DEF BridgeClientType, ClientSidePlaces
<1>12. BridgeHostType
  BY ONLY <1>6, <1>8 DEF BridgeHostType, HostSidePlaces
<1>13. WireType
  BY ONLY <1>3, <1>7, <1>8, Zenon DEF WireType
<1>14. ReportsType /\ EventsType
  BY ONLY <1>4, <1>8 DEF ReportsType, EventsType
<1>15. BridgeType
  BY ONLY <1>1, <1>11, <1>12, <1>13, <1>14 DEF BridgeType
<1>16. OneModel
  BY ONLY <1>5 DEF OneModel
<1>17. ClientPhase
  BY ONLY <1>3, <1>5, <1>7 DEF ClientPhase
<1>18. HostPhase
  BY ONLY <1>1, <1>3, <1>6, <1>7 DEF HostPhase, TabletsType
<1>19. Described
  BY ONLY <1>6, <1>9 DEF Described
<1>20. Link
  BY ONLY <1>3, <1>7, <1>9 DEF Link, Both
<1>21. Reports
  <2>1. ASSUME NEW i \in Interfaces PROVE ReportsOf(i)
    <3>1. /\ \A n \in 1..Len(read[i]) : FALSE
          /\ \A n \in 1..Len(pen[i]) : FALSE
          /\ \A n \in 1..Len(injected[i]) : FALSE
      BY ONLY <1>9, <1>10, <2>1
    <3>2. made[i] = Len(read[i]) + Len(pen[i]) /\ Len(injected[i]) <= Len(read[i])
      <4>1. /\ made[i] = 0 /\ Len(read[i]) = 0 /\ Len(pen[i]) = 0 /\ Len(injected[i]) = 0
        BY ONLY <1>9, <1>10, <2>1, Zenon
      <4> QED
        BY ONLY <4>1
    <3> QED
      BY ONLY <3>1, <3>2, Zenon DEF ReportsOf
  <2> QED
    BY ONLY <2>1, ReportsEach
<1>22. Addressed
  BY ONLY <1>7, <1>9 DEF Addressed
<1>23. Inputs
  <2>1. \A i \in Interfaces : CarriesSome(wire[1], Len(injected[i]), Len(read[i]), i)
    BY ONLY <1>7, <1>9, Zenon DEF CarriesSome
  <2>2. ~Both
    BY ONLY <1>3 DEF Both
  <2> QED
    BY ONLY <2>1, <2>2, Zenon DEF Inputs
<1>24. Requests
  BY ONLY <1>3, <1>7, <1>9, <1>10, Zenon DEF Requests
<1>25. Unread
  BY ONLY <1>10 DEF Unread
<1> QED
  BY ONLY <1>15, <1>16, <1>17, <1>18, <1>19, <1>20, <1>21, <1>22, <1>23, <1>24, <1>25 DEF BridgeInv

LEMMA BridgeInvNext ==
    ASSUME BridgeInv, [BridgeNext]_bridgeVars
    PROVE  BridgeInv'
<1>1. /\ BridgeType /\ OneModel /\ ClientPhase /\ HostPhase /\ Described /\ Link /\ Reports
      /\ Addressed /\ Inputs /\ Requests /\ Unread
  BY DEF BridgeInv
<1>2. TabletsType
  BY <1>1 DEF BridgeType
<1>3. BridgeType'
  <2>1. TabletsType'
    BY <1>2, TabletsTypeNext
  <2>2. BridgeClientType'
    BY <1>1, BridgeClientTypeNext
  <2>3. BridgeHostType'
    BY <1>1, BridgeHostTypeNext
  <2>4. WireType'
    BY <1>1, WireTypeNext
  <2>5. ReportsType' /\ EventsType'
    BY <1>1, ReportsTypeNext, EventsTypeNext
  <2> QED
    BY ONLY <2>1, <2>2, <2>3, <2>4, <2>5 DEF BridgeType
<1>4. OneModel' /\ ClientPhase' /\ HostPhase'
  BY <1>1, OneModelNext, ClientPhaseNext, HostPhaseNext
<1>5. Described' /\ Link'
  BY <1>1, DescribedNext, LinkNext
<1>6. Reports' /\ Addressed' /\ Inputs'
  BY <1>1, ReportsNext, AddressedNext, InputsNext
<1>7. Requests' /\ Unread'
  BY <1>1, RequestsNext, UnreadNext
<1> QED
  BY ONLY <1>3, <1>4, <1>5, <1>6, <1>7 DEF BridgeInv

\* What the invariant says of what a user sees.
LEMMA BridgeInvRelays ==
    ASSUME BridgeInv
    PROVE  BridgeRelays
<1>1. BridgeType /\ HostPhase /\ Described /\ Reports /\ Requests
  BY DEF BridgeInv
<1>2. ASSUME NEW i \in Interfaces
      PROVE  IsPrefix(injected[i], read[i]) /\ read[i] = [n \in 1..Len(read[i]) |-> n]
  <2>1. injected[i] \in Seq(Nat) /\ read[i] \in Seq(Nat)
    BY <1>1 DEF BridgeType, ReportsType
  <2>2. ReportsOf(i)
    BY <1>1, ReportsEach
  <2>3. /\ \A n \in 1..Len(read[i]) : read[i][n] = n
        /\ \A n \in 1..Len(injected[i]) : injected[i][n] = n
        /\ Len(injected[i]) <= Len(read[i])
    BY ONLY <2>2 DEF ReportsOf
  <2>4. \A n \in 1..Len(injected[i]) : n \in 1..Len(read[i])
    BY ONLY <2>1, <2>3
  <2>5. \A n \in 1..Len(injected[i]) : injected[i][n] = read[i][n]
    BY ONLY <2>3, <2>4
  <2>6. IsPrefix(injected[i], read[i])
    BY ONLY <2>1, <2>3, <2>5 DEF IsPrefix
  <2>7. read[i] = [n \in 1..Len(read[i]) |-> n]
    <3>1. read[i] \in [1..Len(read[i]) -> Nat]
      BY ONLY <2>1, LenProperties
    <3>2. read[i] = [n \in 1..Len(read[i]) |-> read[i][n]]
      BY ONLY <3>1, Zenon
    <3> QED
      BY ONLY <2>3, <3>2, Zenon
  <2> QED
    BY <2>6, <2>7
<1>3. ASSUME Created # {} PROVE ToSet(bh.got) = {<<i, tablets[1]>> : i \in Interfaces}
  <2>1. bh.devices # 0 /\ bh.devices \in Nat
    BY <1>1, <1>3 DEF Created, BridgeType, BridgeHostType
  <2>2. Len(bh.got) = Len(tablets)
    BY <1>1, <2>1 DEF HostPhase
  <2>3. bh.got \in Seq(Nat \X FrameData)
    BY <1>1 DEF BridgeType, BridgeHostType
  <2>4. \A j \in 1..Len(tablets) : bh.got[j] = <<j, tablets[1]>>
    BY <1>1, <2>2 DEF Described
  <2>5. DOMAIN bh.got = 1..Len(tablets)
    BY ONLY <2>2, <2>3
  <2>6. ToSet(bh.got) = {bh.got[j] : j \in 1..Len(tablets)}
    BY ONLY <2>5 DEF ToSet
  <2> QED
    BY ONLY <2>4, <2>6 DEF Interfaces
<1>4. ASSUME NEW a \in answers PROVE a[2] \in 1..asked[a[1]] /\ a[3] = <<tablets[1], a[1], a[2]>>
  BY <1>1, Zenon DEF Requests
<1> QED
  BY ONLY <1>2, <1>3, <1>4, Zenon DEF BridgeRelays

\* For any list of tablets and any bounds, on every reachable state: a virtual interface
\* was injected a prefix of what the client read from that interface, which is what the
\* tablet produced without a gap; devices exist only with every interface's own
\* descriptor; and each reply UHID was given carries the result of the very request it
\* names (run_host and run_client of plank-wacom-raw-bridge.cpp).
THEOREM BridgeRelaysAlways == BridgeSpec => []BridgeRelays
<1>1. BridgeInit => BridgeInv
  BY BridgeStarts, BridgeAssumption
<1>2. BridgeInv /\ [BridgeNext]_bridgeVars => BridgeInv'
  BY BridgeInvNext
<1>3. BridgeInv => BridgeRelays
  BY BridgeInvRelays
<1> QED
  BY <1>1, <1>2, <1>3, PTL DEF BridgeSpec

====
