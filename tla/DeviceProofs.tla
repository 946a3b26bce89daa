---- MODULE DeviceProofs ----
(***************************************************************************)
(* Proofs about the virtual devices of the macOS Host.                     *)
(*                                                                         *)
(* First the memory that a real-time thread reads while another thread or  *)
(* process overwrites it, one store at a time: the slots of the virtual    *)
(* camera, the sample history of the virtual microphone and the ring of    *)
(* the audio tap (SharedBuffers).  Then the audio devices: what the        *)
(* microphone lets an application hear (MicrophoneLink), the gain the      *)
(* output tap follows (AudioControls), the clock of a device (AudioDriver) *)
(* and the queue of received speech (MicQueue).                            *)
(***************************************************************************)
EXTENDS SharedBuffers, MicrophoneLink, AudioControls, AudioDriver, MicQueue, FiniteSetTheorems,
        SequenceTheorems, WellFoundedInduction, TLAPS

(***************************************************************************)
(* camera-link.h.  A mark 2 n stands over a slot only while both words are *)
(* those of record n, and the mark of a record the reader may copy is      *)
(* never stored again; so a copy between two equal marks is whole.         *)
(***************************************************************************)
SlotRecords == [stamp : Nat, arrived : Nat, words : [1..2 -> Nat]]
ReaderRecords ==
  [pc : {"idle", "stamp", "times", "word1", "word2", "check"}, now : Nat, arrived : Nat,
   words : [1..2 -> Nat]]
ResultRecords == [code : {-1, 0, 1}, serial : Nat, words : [1..2 -> Nat], age : Int]

CameraTyped ==
  /\ slots \in [0..CameraSlots - 1 -> SlotRecords]
  /\ published \in Nat /\ serial \in Nat /\ writer \in 0..5 /\ cursor \in Nat /\ clock \in Nat
  /\ reader \in ReaderRecords
  /\ result \in ResultRecords

\* What the writer has stored so far of the record it is writing.
WriterAt ==
  /\ serial = IF writer = 0 THEN published ELSE published + 1
  /\ writer \in 1..4 => slots[SlotOf(serial)].stamp = 2 * serial + 1
  /\ writer \in {3, 4} => slots[SlotOf(serial)].words[1] = serial
  /\ writer = 4 => slots[SlotOf(serial)].words[2] = serial

MarksTell ==
  \A n \in Nat \ {0} : slots[SlotOf(n)].stamp = 2 * n =>
    slots[SlotOf(n)].words[1] = n /\ slots[SlotOf(n)].words[2] = n

\* What the reader has copied is of its record, if the mark still is.
CopyTells ==
  /\ cursor <= published
  /\ reader.pc # "idle" => cursor > 0
  /\ reader.pc \in {"word1", "word2", "check"} => reader.now - reader.arrived \in 0..MaxAge
  /\ slots[SlotOf(cursor)].stamp = 2 * cursor =>
       /\ reader.pc \in {"word2", "check"} => reader.words[1] = cursor
       /\ reader.pc = "check" => reader.words[2] = cursor

\* The cursor and the record returned last, unless -1 was returned since.
ResultBehind ==
  /\ result.serial <= cursor
  /\ reader.pc # "idle" => result.serial < cursor
  /\ result.code # -1 => cursor = IF reader.pc = "idle" THEN result.serial ELSE result.serial + 1

CameraInv == CameraTyped /\ WriterAt /\ MarksTell /\ CopyTells /\ ResultBehind

\* A record has one slot.
LEMMA SlotExists == \A n \in Nat : SlotOf(n) \in 0..CameraSlots - 1
BY CameraLinkAssumption DEF SlotOf

\* A tuple of two numbers, seen as a function.
LEMMA Pairs ==
  /\ \A a, b \in Nat : <<a, b>> \in [1..2 -> Nat]
  /\ \A w \in [1..2 -> Nat], n \in Nat : w[1] = n /\ w[2] = n => w = <<n, n>>
OBVIOUS

\* PLANKCameraLinkInit.
LEMMA CameraStart == CameraLinkInit => CameraInv
<1> SUFFICES ASSUME CameraLinkInit PROVE CameraInv
  OBVIOUS
<1> USE DEF CameraLinkInit
<1>1. <<0, 0>> \in [1..2 -> Nat]
  BY Pairs
<1>2. [stamp |-> 0, arrived |-> 0, words |-> <<0, 0>>] \in SlotRecords
  BY <1>1 DEF SlotRecords
<1>3. CameraTyped
  <2>1. slots \in [0..CameraSlots - 1 -> SlotRecords]
    BY <1>2
  <2>2. reader \in ReaderRecords
    BY <1>1 DEF ReaderRecords
  <2>3. result \in ResultRecords
    BY <1>1 DEF ResultRecords
  <2>4. published \in Nat /\ serial \in Nat /\ writer \in 0..5 /\ cursor \in Nat /\ clock \in Nat
    OBVIOUS
  <2> QED
    BY ONLY <2>1, <2>2, <2>3, <2>4 DEF CameraTyped
<1>4. MarksTell
  <2> SUFFICES ASSUME NEW n \in Nat \ {0}
               PROVE  slots[SlotOf(n)].stamp # 2 * n
    BY DEF MarksTell
  <2>1. slots[SlotOf(n)].stamp = 0
    BY SlotExists
  <2>2. 2 * n # 0
    OBVIOUS
  <2> QED
    BY ONLY <2>1, <2>2
<1> QED
  BY <1>3, <1>4, CameraLinkAssumption DEF CameraInv, WriterAt, CopyTells, ResultBehind

\* Everything about the writer's slot that does not concern the reader: a store to a slot
\* under an odd mark, or of a mark, leaves the marks true.
LEMMA CameraWrites ==
  ASSUME CameraInv, NEW n \in Nat \ {0}, n > cursor, n >= serial, NEW r \in SlotRecords,
         \/ r.stamp = 2 * n + 1
         \/ r.stamp = 2 * n /\ r.words[1] = n /\ r.words[2] = n,
         slots' = [slots EXCEPT ![SlotOf(n)] = r],
         UNCHANGED <<cursor, reader, clock, result>>
  PROVE  /\ slots' \in [0..CameraSlots - 1 -> SlotRecords]
         /\ slots'[SlotOf(n)] = r
         /\ MarksTell'
         /\ cursor <= published' => CopyTells'
         /\ ResultBehind'
<1>1. SlotOf(n) \in 0..CameraSlots - 1 /\ SlotOf(cursor) \in 0..CameraSlots - 1
  BY SlotExists DEF CameraInv, CameraTyped
<1>2. slots \in [0..CameraSlots - 1 -> SlotRecords] /\ cursor \in Nat
  BY DEF CameraInv, CameraTyped
<1>3. slots' \in [0..CameraSlots - 1 -> SlotRecords] /\ slots'[SlotOf(n)] = r
  BY <1>1, <1>2
<1>4. MarksTell'
  <2> SUFFICES ASSUME NEW m \in Nat \ {0}, slots'[SlotOf(m)].stamp = 2 * m
               PROVE  slots'[SlotOf(m)].words[1] = m /\ slots'[SlotOf(m)].words[2] = m
    BY DEF MarksTell
  <2>1. CASE SlotOf(m) = SlotOf(n)
    <3>1. r.stamp = 2 * m
      BY <1>3, <2>1
    <3>2. m = n /\ r.stamp = 2 * n
      BY <3>1
    <3> QED
      BY <1>3, <2>1, <3>2
  <2>2. CASE SlotOf(m) # SlotOf(n)
    <3>1. SlotOf(m) \in 0..CameraSlots - 1
      BY SlotExists
    <3>2. slots'[SlotOf(m)] = slots[SlotOf(m)]
      BY <1>2, <2>2, <3>1
    <3> QED
      BY <3>2 DEF CameraInv, MarksTell
  <2> QED
    BY <2>1, <2>2
<1>5. slots'[SlotOf(cursor)].stamp = 2 * cursor => slots'[SlotOf(cursor)] = slots[SlotOf(cursor)]
  <2>1. CASE SlotOf(cursor) = SlotOf(n)
    BY <1>2, <1>3, <2>1
  <2>2. CASE SlotOf(cursor) # SlotOf(n)
    BY <1>1, <1>2, <2>2
  <2> QED
    BY <2>1, <2>2
<1>6. cursor <= published' => CopyTells'
  BY <1>5 DEF CameraInv, CopyTells
<1>7. ResultBehind'
  BY DEF CameraInv, ResultBehind
<1> QED
  BY <1>3, <1>4, <1>6, <1>7

\* PLANKCameraLinkWriteTimed, store by store.
LEMMA CameraWriter == ASSUME CameraInv, WriteBegin \/ WriteStep PROVE CameraInv'
<1> USE DEF CameraInv
<1>1. /\ serial \in Nat /\ cursor \in Nat /\ published \in Nat /\ clock \in Nat
      /\ slots \in [0..CameraSlots - 1 -> SlotRecords] /\ writer \in 0..5
  BY DEF CameraTyped
<1>2. UNCHANGED <<cursor, reader, clock, result>>
  BY DEF WriteBegin, WriteStep
<1>3. CASE WriteBegin
  <2> DEFINE n == serial + 1
             r == [slots[SlotOf(n)] EXCEPT !.stamp = 2 * n + 1]
  <2>1. writer = 0 /\ serial' = n /\ writer' = 1 /\ published' = published
        /\ slots' = [slots EXCEPT ![SlotOf(n)] = r]
    BY <1>3 DEF WriteBegin
  <2>2. n \in Nat \ {0} /\ n > cursor /\ n >= serial /\ serial = published
    BY <1>1, <2>1 DEF WriterAt, CopyTells
  <2>3. r \in SlotRecords /\ r.stamp = 2 * n + 1
    <3>1. slots[SlotOf(n)] \in SlotRecords /\ 2 * n + 1 \in Nat
      BY <1>1, <2>2, SlotExists
    <3>2. \A s \in SlotRecords, v \in Nat :
            [s EXCEPT !.stamp = v] \in SlotRecords /\ [s EXCEPT !.stamp = v].stamp = v
      BY DEF SlotRecords
    <3> QED
      BY ONLY <3>1, <3>2
  <2> HIDE DEF r, n
  <2>4. /\ slots' \in [0..CameraSlots - 1 -> SlotRecords] /\ slots'[SlotOf(n)] = r
        /\ MarksTell' /\ CopyTells' /\ ResultBehind'
    BY <1>2, <2>1, <2>2, <2>3, CameraWrites DEF CopyTells
  <2>5. CameraTyped'
    BY <1>2, <2>1, <2>2, <2>4 DEF CameraTyped
  <2>6. WriterAt'
    BY <2>1, <2>2, <2>3, <2>4 DEF WriterAt, n
  <2> QED
    BY <2>4, <2>5, <2>6
<1>4. CASE WriteStep /\ writer \in 1..4
  <2> DEFINE old == slots[SlotOf(serial)]
  <2>1. /\ serial = published + 1 /\ serial \in Nat \ {0} /\ serial > cursor
        /\ old.stamp = 2 * serial + 1 /\ old \in SlotRecords
    <3>1. serial = published + 1 /\ old.stamp = 2 * serial + 1
      BY <1>4 DEF WriterAt
    <3>2. SlotOf(serial) \in 0..CameraSlots - 1
      BY <1>1, SlotExists
    <3>3. old \in SlotRecords
      BY <1>1, <3>2
    <3> HIDE DEF old
    <3> QED
      BY <1>1, <3>1, <3>3 DEF CopyTells
  <2>2. serial' = serial /\ published' = published /\ writer' = writer + 1
    BY <1>4 DEF WriteStep
  <2> DEFINE r == slots'[SlotOf(serial)]
  <2>3. /\ r \in SlotRecords /\ slots' = [slots EXCEPT ![SlotOf(serial)] = r]
        /\ writer # 4 => r.stamp = 2 * serial + 1
        /\ writer = 4 => r.stamp = 2 * serial /\ r.words = old.words
        /\ writer = 2 => r.words[1] = serial
        /\ writer = 3 => r.words[2] = serial /\ r.words[1] = old.words[1]
    <3>1. SlotOf(serial) \in 0..CameraSlots - 1
      BY <1>1, SlotExists
    <3>2. CASE writer = 1
      <4> DEFINE v == [old EXCEPT !.arrived = clock]
      <4>1. v \in SlotRecords /\ v.stamp = 2 * serial + 1
        BY <1>1, <2>1 DEF SlotRecords
      <4>2. slots' = [slots EXCEPT ![SlotOf(serial)] = v]
        BY <1>4, <3>2 DEF WriteStep, Store
      <4> HIDE DEF v, old
      <4> QED
        BY <1>1, <3>1, <3>2, <4>1, <4>2
    <3>3. CASE writer \in {2, 3}
      <4> DEFINE w == [old.words EXCEPT ![writer - 1] = serial]
                 v == [old EXCEPT !.words = w]
      <4>1. old.words \in [1..2 -> Nat] /\ writer - 1 \in 1..2
        BY <2>1, <3>3 DEF SlotRecords
      <4>2. /\ w \in [1..2 -> Nat] /\ w[writer - 1] = serial
            /\ writer = 3 => w[1] = old.words[1]
        BY <2>1, <4>1
      <4>3. slots' = [slots EXCEPT ![SlotOf(serial)] = v]
        BY <1>4, <3>3 DEF WriteStep, Store
      <4> HIDE DEF w
      <4>4. v \in SlotRecords /\ v.stamp = 2 * serial + 1 /\ v.words = w
        BY <2>1, <4>2 DEF SlotRecords
      <4> HIDE DEF v, old
      <4> QED
        BY <1>1, <3>1, <3>3, <4>2, <4>3, <4>4
    <3>4. CASE writer = 4
      <4> DEFINE v == [old EXCEPT !.stamp = 2 * serial]
      <4>1. v \in SlotRecords /\ v.stamp = 2 * serial /\ v.words = old.words
        BY <2>1 DEF SlotRecords
      <4>2. slots' = [slots EXCEPT ![SlotOf(serial)] = v]
        BY <1>4, <3>4 DEF WriteStep, Store
      <4> HIDE DEF v, old
      <4> QED
        BY <1>1, <3>1, <3>4, <4>1, <4>2
    <3> QED
      BY <1>4, <3>2, <3>3, <3>4
  <2> HIDE DEF r
  <2>4. writer = 4 => r.words[1] = serial /\ r.words[2] = serial
    BY <2>3 DEF WriterAt
  <2>5. writer = 3 => old.words[1] = serial
    BY DEF WriterAt
  <2>6. /\ slots' \in [0..CameraSlots - 1 -> SlotRecords] /\ slots'[SlotOf(serial)] = r
        /\ MarksTell' /\ CopyTells' /\ ResultBehind'
    <3>1. serial >= serial
      BY <1>1
    <3> QED
      BY <1>2, <2>1, <2>2, <2>3, <2>4, <3>1, CameraWrites DEF CopyTells
  <2> HIDE DEF old
  <2>7. CameraTyped'
    BY <1>2, <1>4, <2>2, <2>6 DEF CameraTyped
  <2>8. WriterAt'
    <3>1. writer \in {1, 2, 3, 4}
      BY <1>4
    <3> QED
      BY <2>1, <2>2, <2>3, <2>5, <2>6, <3>1 DEF WriterAt
  <2> QED
    BY <2>6, <2>7, <2>8
<1>5. CASE WriteStep /\ writer = 5
  <2>1. writer' = 0 /\ published' = serial /\ UNCHANGED <<slots, serial>>
    BY <1>5 DEF WriteStep
  <2>2. serial = published + 1
    BY <1>5 DEF WriterAt
  <2>3. CameraTyped' /\ MarksTell' /\ ResultBehind' /\ WriterAt'
    BY <1>2, <2>1 DEF CameraTyped, MarksTell, ResultBehind, WriterAt
  <2>4. CopyTells'
    BY <1>1, <1>2, <2>1, <2>2 DEF CopyTells
  <2> QED
    BY <2>3, <2>4
<1> QED
  BY <1>1, <1>3, <1>4, <1>5 DEF WriteStep

\* PLANKCameraLinkReadTimed, load by load.
LEMMA CameraReader ==
  ASSUME CameraInv,
         ReadBegin \/ ReadStamp \/ ReadTimes \/ ReadCheck \/ \E k \in 1..2 : ReadWord(k)
  PROVE  /\ CameraInv'
         /\ result'.code = 1 /\ result' # result =>
              /\ result'.words = <<result'.serial, result'.serial>>
              /\ result'.age \in 0..MaxAge
              /\ result'.serial > result.serial
              /\ result.code = -1 \/ result'.serial = result.serial + 1
<1> USE DEF CameraInv
<1>1. UNCHANGED <<slots, published, serial, writer, clock>>
  BY DEF ReadBegin, ReadStamp, ReadTimes, ReadCheck, ReadWord
<1>2. WriterAt' /\ MarksTell'
  BY <1>1 DEF WriterAt, MarksTell
<1>3. /\ cursor \in Nat /\ published \in Nat /\ clock \in Nat /\ reader.words \in [1..2 -> Nat]
      /\ reader.now \in Nat /\ reader.arrived \in Nat
      /\ result.serial \in Nat /\ result.code \in {-1, 0, 1}
      /\ slots \in [0..CameraSlots - 1 -> SlotRecords]
      /\ reader \in ReaderRecords
      /\ result \in ResultRecords
  BY DEF CameraTyped, ReaderRecords, ResultRecords
<1>4. /\ slots[SlotOf(cursor)] \in SlotRecords
      /\ slots[SlotOf(cursor)].arrived \in Nat
      /\ slots[SlotOf(cursor)].words \in [1..2 -> Nat]
  BY <1>3, SlotExists DEF SlotRecords
<1>5. ASSUME Rejects, result.serial <= cursor', cursor' \in Nat, cursor' <= published
      PROVE  CameraInv' /\ result'.code = -1
  <2>1. /\ result' = [result EXCEPT !.code = -1] /\ reader' = [reader EXCEPT !.pc = "idle"]
    BY <1>5 DEF Rejects
  <2>2. /\ result'.code = -1 /\ result'.serial = result.serial /\ reader'.pc = "idle"
        /\ result' \in ResultRecords
        /\ reader' \in ReaderRecords
    BY <1>3, <2>1 DEF ReaderRecords, ResultRecords
  <2>3. CameraTyped'
    BY <1>1, <1>5, <2>2 DEF CameraTyped
  <2>4. CopyTells' /\ ResultBehind'
    BY <1>1, <1>5, <2>2 DEF CopyTells, ResultBehind
  <2> QED
    BY <1>2, <2>2, <2>3, <2>4
<1>6. CASE ReadBegin
  <2>1. reader.pc = "idle" /\ published # cursor /\ cursor < published
    BY <1>3, <1>6 DEF ReadBegin, CopyTells
  <2>2. CASE published - cursor > CameraSlots
    <3>1. cursor' = published - 1 /\ Rejects
      BY <1>6, <2>2 DEF ReadBegin
    <3>2. result.serial <= cursor' /\ cursor' \in Nat /\ cursor' <= published
      BY <1>3, <2>1, <3>1 DEF ResultBehind
    <3> QED
      BY <1>5, <3>1, <3>2
  <2>3. CASE ~(published - cursor > CameraSlots)
    <3>1. /\ cursor' = cursor + 1 /\ UNCHANGED result
          /\ reader' = [reader EXCEPT !.pc = "stamp", !.now = clock]
      BY <1>6, <2>3 DEF ReadBegin
    <3>2. /\ reader'.pc = "stamp"
          /\ reader' \in ReaderRecords
      BY <1>3, <3>1 DEF ReaderRecords
    <3>3. CameraTyped'
      BY <1>1, <1>3, <3>1, <3>2 DEF CameraTyped
    <3>4. CopyTells'
      BY <1>1, <1>3, <2>1, <3>1, <3>2 DEF CopyTells
    <3>5. ResultBehind'
      BY <1>1, <1>3, <2>1, <3>1, <3>2 DEF ResultBehind
    <3> QED
      BY <1>2, <3>1, <3>3, <3>4, <3>5
  <2> QED
    BY <2>2, <2>3
<1>7. ASSUME UNCHANGED cursor, Rejects PROVE CameraInv' /\ result'.code = -1
  BY <1>3, <1>5, <1>7 DEF ResultBehind, CopyTells
<1>8. CASE ReadStamp
  <2>1. CASE Rejects
    BY <1>7, <1>8, <2>1 DEF ReadStamp
  <2>2. CASE ~Rejects
    <3>1. /\ reader' = [reader EXCEPT !.pc = "times"] /\ UNCHANGED <<result, cursor>>
          /\ reader.pc = "stamp"
      BY <1>8, <2>2 DEF ReadStamp
    <3>2. /\ reader'.pc = "times"
          /\ reader' \in ReaderRecords
      BY <1>3, <3>1 DEF ReaderRecords
    <3>3. CameraTyped'
      BY <1>1, <3>1, <3>2 DEF CameraTyped
    <3>4. CopyTells' /\ ResultBehind'
      BY <1>1, <3>1, <3>2 DEF CopyTells, ResultBehind
    <3> QED
      BY <1>2, <3>1, <3>3, <3>4
  <2> QED
    BY <2>1, <2>2
<1>9. CASE ReadTimes
  <2> DEFINE at == slots[SlotOf(cursor)].arrived
  <2>1. CASE Rejects
    BY <1>7, <1>9, <2>1 DEF ReadTimes
  <2>2. CASE ~Rejects
    <3>1. /\ reader' = [reader EXCEPT !.pc = "word1", !.arrived = at] /\ UNCHANGED <<result, cursor>>
          /\ reader.pc = "times" /\ at <= reader.now /\ reader.now - at <= MaxAge
      BY <1>9, <2>2 DEF ReadTimes
    <3>2. at \in Nat
      BY <1>4
    <3> HIDE DEF at
    <3>3. /\ reader'.pc = "word1" /\ reader'.now = reader.now /\ reader'.arrived = at
          /\ reader' \in ReaderRecords
      BY <1>3, <3>1, <3>2 DEF ReaderRecords
    <3>4. CameraTyped'
      BY <1>1, <3>1, <3>3 DEF CameraTyped
    <3>5. reader'.now - reader'.arrived \in 0..MaxAge
      <4>1. reader.now \in Nat /\ at <= reader.now /\ reader.now - at <= MaxAge
        BY <1>3, <3>1
      <4>2. reader.now - at \in 0..MaxAge
        BY ONLY <4>1, <3>2, CameraLinkAssumption
      <4> QED
        BY ONLY <4>2, <3>3
    <3>6. CopyTells' /\ ResultBehind'
      BY <1>1, <3>1, <3>3, <3>5 DEF CopyTells, ResultBehind
    <3> QED
      BY <1>2, <3>1, <3>4, <3>6
  <2> QED
    BY <2>1, <2>2
<1>10. ASSUME NEW k \in 1..2, ReadWord(k) PROVE CameraInv' /\ UNCHANGED result
  <2> DEFINE v == slots[SlotOf(cursor)].words[k]
             w == [reader.words EXCEPT ![k] = v]
  <2>1. /\ reader' = [reader EXCEPT !.words = w, !.pc = IF k = 1 THEN "word2" ELSE "check"]
        /\ reader.pc = (IF k = 1 THEN "word1" ELSE "word2")
        /\ UNCHANGED <<result, cursor>>
    <3>1. CASE k = 1
      BY <1>10, <3>1 DEF ReadWord
    <3>2. CASE k = 2
      BY <1>10, <3>2 DEF ReadWord
    <3> QED
      BY <3>1, <3>2
  <2>2. w \in [1..2 -> Nat] /\ w[k] = v /\ (k = 2 => w[1] = reader.words[1])
    <3>1. v \in Nat /\ reader.words \in [1..2 -> Nat]
      BY <1>3, <1>4
    <3> HIDE DEF v
    <3> QED
      BY ONLY <3>1, k \in 1..2
  <2>3. slots[SlotOf(cursor)].stamp = 2 * cursor /\ reader.pc # "idle" => v = cursor
    <3>1. reader.pc # "idle" => cursor \in Nat \ {0}
      BY <1>3 DEF CopyTells
    <3>2. k = 1 \/ k = 2
      OBVIOUS
    <3> QED
      BY <3>1, <3>2 DEF MarksTell
  <2> HIDE DEF v, w
  <2>4. /\ reader'.pc = (IF k = 1 THEN "word2" ELSE "check") /\ reader'.words = w
        /\ reader'.now = reader.now /\ reader'.arrived = reader.arrived
        /\ reader' \in ReaderRecords
    BY <1>3, <2>1, <2>2 DEF ReaderRecords
  <2>5. CameraTyped'
    BY <1>1, <2>1, <2>4 DEF CameraTyped
  <2>6. ResultBehind'
    BY <2>1, <2>4 DEF ResultBehind
  <2>7. CopyTells'
    <3>1. k = 1 \/ k = 2
      OBVIOUS
    <3>2. CASE k = 1
      BY <1>1, <2>1, <2>2, <2>3, <2>4, <3>2 DEF CopyTells
    <3>3. CASE k = 2
      BY <1>1, <2>1, <2>2, <2>3, <2>4, <3>3 DEF CopyTells
    <3> QED
      BY <3>1, <3>2, <3>3
  <2> QED
    BY <1>2, <2>1, <2>5, <2>6, <2>7
<1>11. CASE ReadCheck
  <2>1. CASE Rejects
    BY <1>7, <1>11, <2>1 DEF ReadCheck
  <2>2. CASE ~Rejects
    <3>1. /\ slots[SlotOf(cursor)].stamp = 2 * cursor /\ reader.pc = "check" /\ UNCHANGED cursor
          /\ result' = [code |-> 1, serial |-> cursor, words |-> reader.words,
                        age |-> reader.now - reader.arrived]
          /\ reader' = [reader EXCEPT !.pc = "idle"]
      BY <1>11, <2>2 DEF ReadCheck
    <3>2. /\ reader'.pc = "idle"
          /\ reader' \in ReaderRecords
      BY <1>3, <3>1 DEF ReaderRecords
    <3>3. reader.words[1] = cursor /\ reader.words[2] = cursor
          /\ reader.now - reader.arrived \in 0..MaxAge
      BY <3>1 DEF CopyTells
    <3>4. reader.words = <<cursor, cursor>>
      BY <1>3, <3>3, Pairs
    <3>5. /\ result'.serial = cursor /\ result'.words = <<cursor, cursor>>
          /\ result'.age \in 0..MaxAge /\ result'.code = 1
      BY <3>1, <3>3, <3>4
    <3>6. result.serial < cursor /\ (result.code = -1 \/ cursor = result.serial + 1)
      BY <3>1 DEF ResultBehind
    <3>7. result' \in ResultRecords
      <4> DEFINE age == reader.now - reader.arrived
      <4>1. age \in Int
        BY <1>3
      <4> HIDE DEF age
      <4>2. result' = [code |-> 1, serial |-> cursor, words |-> reader.words, age |-> age]
        BY <3>1 DEF age
      <4>3. cursor \in Nat /\ reader.words \in [1..2 -> Nat]
        BY <1>3
      <4> QED
        BY ONLY <4>1, <4>2, <4>3 DEF ResultRecords
    <3>8. CameraTyped'
      BY <1>1, <3>1, <3>2, <3>7 DEF CameraTyped
    <3>9. CopyTells' /\ ResultBehind'
      BY <1>1, <1>3, <3>1, <3>2, <3>5 DEF CopyTells, ResultBehind
    <3> QED
      BY <1>2, <1>3, <3>5, <3>6, <3>8, <3>9
  <2> QED
    BY <2>1, <2>2
<1> QED
  BY <1>6, <1>8, <1>9, <1>10, <1>11

\* The inductive invariant of camera-link.h, and what a step returns.
LEMMA CameraStep ==
  ASSUME CameraInv, [CameraLinkNext]_cameraLinkVars
  PROVE  /\ CameraInv'
         /\ result'.code = 1 /\ result' # result =>
              /\ result'.words = <<result'.serial, result'.serial>>
              /\ result'.age \in 0..MaxAge
              /\ result'.serial > result.serial
              /\ result.code = -1 \/ result'.serial = result.serial + 1
<1>1. CASE WriteBegin \/ WriteStep
  BY <1>1, CameraWriter DEF WriteBegin, WriteStep
<1>2. CASE ReadBegin \/ ReadStamp \/ ReadTimes \/ ReadCheck \/ \E k \in 1..2 : ReadWord(k)
  BY <1>2, CameraReader
<1>3. CASE CameraTick \/ UNCHANGED cameraLinkVars
  <2>1. UNCHANGED <<slots, published, serial, writer, cursor, reader, result>> /\ clock' \in Nat
    BY <1>3 DEF CameraTick, cameraLinkVars, CameraInv, CameraTyped
  <2> QED
    BY <2>1 DEF CameraInv, CameraTyped, WriterAt, MarksTell, CopyTells, ResultBehind
<1> QED
  BY <1>1, <1>2, <1>3 DEF CameraLinkNext

\* The camera extension is given whole, recent records, each the successor of the one
\* before unless it was told to ask for a key frame: however many slots there are and
\* however far the producer gets during a copy.
THEOREM CameraRecords == CameraLinkSpec => CameraRecordsWhole
<1>1. CameraInv /\ [CameraLinkNext]_cameraLinkVars =>
        [(result'.code = 1 /\ result' # result) =>
           /\ result'.words = <<result'.serial, result'.serial>>
           /\ result'.age \in 0..MaxAge
           /\ result'.serial > result.serial
           /\ result.code = -1 \/ result'.serial = result.serial + 1]_cameraLinkVars
  BY CameraStep
<1>2. CameraInv /\ [CameraLinkNext]_cameraLinkVars => CameraInv'
  BY CameraStep
<1> QED
  BY <1>1, <1>2, CameraStart, PTL DEF CameraLinkSpec, CameraRecordsWhole

(***************************************************************************)
(* microphone-buffer.h.  A stamp f + 1 stands over a slot only while its   *)
(* payload is that of frame f since the last reset, and between two resets *)
(* the payloads of a slot only go forward, because the writers never go    *)
(* back by a whole history.  A reader that finds its stamp twice therefore *)
(* read the payload in between.                                            *)
(***************************************************************************)
Payload == [frame : Nat \cup {-1}, reset : Nat]
SampleRecords == [frame : Nat, bits : Payload]
MicWriters == [op : {"none", "reset", "write"}, step : Nat, frame : Nat]
MicReaders ==
  [step : 0..5, generation : Nat, first : Nat, frame : Nat, before : Nat, bits : Payload,
   value : Payload]

MicTyped ==
  /\ generation \in Nat /\ firstFrame \in Nat /\ resets \in Nat /\ latest \in Nat
  /\ samples \in [0..MicFrames - 1 -> SampleRecords]
  /\ micWriter \in MicWriters /\ micReader \in MicReaders

\* The slot a frame is kept in.
Slot(f) == f % MicFrames

\* How far the writer is: the generation counts the resets, ...
Generations == generation = IF micWriter.op = "reset" THEN 2 * resets + 1 ELSE 2 * resets + 2

\* ... a reset has cleared the stamps behind it, ...
ResetProgress ==
  micWriter.op = "reset" =>
    /\ micWriter.step \in 0..MicFrames + 1
    /\ \A s \in 0..MicFrames - 1 : s < micWriter.step - 1 => samples[s].frame = 0

\* ... and a write keeps its slot unstamped until the payload is there.
WriteProgress ==
  micWriter.op = "write" =>
    /\ micWriter.step \in 0..2
    /\ micWriter.frame <= latest /\ micWriter.frame > latest - MicFrames
    /\ micWriter.step > 0 => samples[Slot(micWriter.frame)].frame = 0
    /\ micWriter.step = 2 =>
         samples[Slot(micWriter.frame)].bits = [frame |-> micWriter.frame, reset |-> resets]

\* What the stamp of a sample says of its payload, x being the slot's number.
SampleTells(x, sample) ==
  /\ sample.bits.reset <= resets
  /\ sample.bits.reset = resets =>
       sample.bits.frame <= latest /\ (sample.bits.frame = -1 \/ Slot(sample.bits.frame) = x)
  /\ micWriter.op # "reset" /\ sample.frame # 0 =>
       sample.frame = sample.bits.frame + 1 /\ sample.bits.reset = resets

StampsTell == \A s \in 0..MicFrames - 1 : SampleTells(s, samples[s])

\* What the reader knows about its slot's payload, if no reset began since it started.
ReaderKnows(r, bits) ==
  /\ r.step \in {3, 4} /\ r.before = r.frame + 1 => bits.reset = resets /\ r.frame <= bits.frame
  /\ r.step = 4 /\ r.before = r.frame + 1 =>
       r.bits.reset = resets /\ r.frame <= r.bits.frame /\ r.bits.frame <= bits.frame
  /\ r.step = 5 => r.value \in {NoBits, [frame |-> r.frame, reset |-> resets]}

ReaderTells ==
  micReader.step > 0 =>
    /\ micReader.generation <= generation
    /\ micReader.step < 5 => micReader.value = NoBits
    /\ micReader.generation = generation =>
         micWriter.op # "reset" /\ ReaderKnows(micReader, samples[Slot(micReader.frame)].bits)

MicInv ==
  MicTyped /\ Generations /\ ResetProgress /\ WriteProgress /\ StampsTell /\ ReaderTells

\* Division with remainder.
LEMMA Division ==
  ASSUME NEW n \in Nat \ {0}, NEW a \in Int
  PROVE  a = n * (a \div n) + (a % n) /\ a % n \in 0..n - 1 /\ a \div n \in Int
OBVIOUS

\* Two frames of one slot less than a history apart: the later store is not older.
LEMMA NotBack ==
  ASSUME NEW n \in Nat \ {0}, NEW f \in Nat, NEW g \in Nat, f % n = g % n, f > g - n
  PROVE  f >= g
<1> DEFINE p == f \div n
           q == g \div n
           r == f % n
<1>1. f = n * p + r /\ g = n * q + r /\ p \in Int /\ q \in Int /\ r \in Int
  BY Division
<1> HIDE DEF p, q, r
<1>2. n * p - n * q = n * (p - q)
  BY <1>1
<1>3. p - q >= 0
  <2>1. ASSUME p - q <= -1 PROVE n * (p - q) <= -n
    BY <1>1, <2>1
  <2> QED
    BY <1>1, <1>2, <2>1
<1>4. n * (p - q) >= 0
  BY <1>1, <1>3
<1> QED
  BY <1>1, <1>2, <1>4

\* A frame's slot is a slot, ...
LEMMA SlotIn == ASSUME NEW f \in Nat PROVE Slot(f) \in 0..MicFrames - 1
  BY Division, MicBufferAssumption DEF Slot

\* ... and the writer does not go back in it.
LEMMA SlotNotBack ==
  ASSUME NEW f \in Nat, NEW g \in Nat, Slot(f) = Slot(g), f > g - MicFrames
  PROVE  f >= g
  BY NotBack, MicBufferAssumption DEF Slot

\* The fields of a sample, of the writer and of the reader.
LEMMA SampleFields ==
  ASSUME NEW v \in SampleRecords
  PROVE  /\ v.frame \in Nat /\ v.bits \in Payload
         /\ v.bits.frame \in Int /\ (v.bits.frame \in Nat \/ v.bits.frame = -1) /\ v.bits.reset \in Nat
<1>1. v.frame \in Nat /\ v.bits \in Payload
  BY DEF SampleRecords
<1> QED
  BY <1>1 DEF Payload

LEMMA WriterFields ==
  ASSUME NEW w \in MicWriters
  PROVE  w.op \in {"none", "reset", "write"} /\ w.step \in Nat /\ w.frame \in Nat
  BY DEF MicWriters

\* The writer after a store, and after its last one.
LEMMA WriterMoves ==
  ASSUME NEW w \in MicWriters, NEW n \in Nat
  PROVE  LET on == [w EXCEPT !.step = n]
             end == [w EXCEPT !.op = "none"]
         IN  /\ on \in MicWriters /\ on.op = w.op /\ on.step = n /\ on.frame = w.frame
             /\ end \in MicWriters /\ end.op = "none" /\ end.frame = w.frame
  BY DEF MicWriters

LEMMA ReaderFields ==
  ASSUME NEW r \in MicReaders
  PROVE  /\ r.step \in 0..5 /\ r.generation \in Nat /\ r.frame \in Nat /\ r.before \in Nat
         /\ r.bits \in Payload /\ r.bits.frame \in Int /\ r.bits.reset \in Nat /\ r.value \in Payload
<1>1. /\ r.step \in 0..5 /\ r.generation \in Nat /\ r.frame \in Nat /\ r.before \in Nat
      /\ r.bits \in Payload /\ r.value \in Payload
  BY DEF MicReaders
<1> QED
  BY <1>1 DEF Payload

\* PLANKMicBufferInit.
LEMMA MicStart == MicBufferInit => MicInv
<1> SUFFICES ASSUME MicBufferInit PROVE MicInv
  OBVIOUS
<1>1. NoBits \in Payload /\ NoBits.frame = -1 /\ NoBits.reset = 0
  BY DEF NoBits, Payload
<1>2. samples = [s \in 0..MicFrames - 1 |-> [frame |-> 0, bits |-> NoBits]]
      /\ generation = 2 /\ firstFrame = 0 /\ resets = 0 /\ latest = 0
      /\ micWriter = [op |-> "none", step |-> 0, frame |-> 0]
  BY DEF MicBufferInit
<1>3. micReader \in MicReaders /\ micReader.step = 0
  BY <1>1 DEF MicBufferInit, MicReaders
<1>4. MicTyped
  BY <1>1, <1>2, <1>3 DEF MicTyped, SampleRecords, MicWriters
<1>5. Generations /\ ResetProgress /\ WriteProgress
  BY <1>2 DEF Generations, ResetProgress, WriteProgress
<1>6. StampsTell
  BY <1>1, <1>2 DEF StampsTell, SampleTells
<1>7. ReaderTells
  BY <1>3 DEF ReaderTells
<1> QED
  BY <1>4, <1>5, <1>6, <1>7 DEF MicInv

\* PLANKMicBufferReset begins.
LEMMA MicResetBegins ==
  ASSUME MicInv, NEW first \in 0..MaxFrame, ResetBegin(first)
  PROVE  MicInv'
<1>1. /\ resets' = resets + 1 /\ latest' = 0 /\ generation' = generation + 1
      /\ micWriter.op = "none" /\ micWriter' = [op |-> "reset", step |-> 0, frame |-> first]
      /\ firstFrame' = firstFrame /\ samples' = samples /\ micReader' = micReader
  BY DEF ResetBegin
<1>2. /\ MicFrames \in Nat \ {0} /\ generation \in Nat /\ resets \in Nat /\ firstFrame \in Nat
      /\ samples \in [0..MicFrames - 1 -> SampleRecords] /\ micReader \in MicReaders
      /\ generation = 2 * resets + 2
  BY <1>1, MicBufferAssumption DEF MicInv, MicTyped, Generations
<1>3. micWriter' \in MicWriters /\ micWriter'.op = "reset" /\ micWriter'.step = 0
  BY <1>1, MicBufferAssumption DEF MicWriters
<1>4. MicTyped'
  BY <1>1, <1>2, <1>3 DEF MicTyped
<1>5. Generations'
  BY <1>1, <1>2, <1>3 DEF Generations
<1>6. ResetProgress' /\ WriteProgress'
  BY <1>2, <1>3 DEF ResetProgress, WriteProgress
<1>7. StampsTell'
  <2> SUFFICES ASSUME NEW x \in 0..MicFrames - 1 PROVE SampleTells(x, samples[x])'
    BY <1>1 DEF StampsTell
  <2>1. samples[x].bits.reset \in Nat /\ samples[x].bits.reset <= resets
    BY <1>2, SampleFields DEF MicInv, StampsTell, SampleTells
  <2> QED
    BY <1>1, <1>2, <1>3, <2>1 DEF SampleTells
<1>8. ReaderTells'
  <2>1. micReader.step \in 0..5 /\ micReader.generation \in Nat
    BY <1>2, ReaderFields
  <2> QED
    BY <1>1, <1>2, <2>1 DEF MicInv, ReaderTells
<1> QED
  BY <1>4, <1>5, <1>6, <1>7, <1>8 DEF MicInv

\* PLANKMicBufferReset goes on.
LEMMA MicResetGoesOn ==
  ASSUME MicInv, ResetStep
  PROVE  MicInv'
<1> DEFINE s == micWriter.step
<1>1. /\ micWriter.op = "reset" /\ resets' = resets /\ latest' = latest /\ micReader' = micReader
      /\ firstFrame' = IF s = 0 THEN micWriter.frame ELSE firstFrame
      /\ samples' = IF s \in 1..MicFrames THEN [samples EXCEPT ![s - 1].frame = 0] ELSE samples
      /\ generation' = IF s > MicFrames THEN generation + 1 ELSE generation
      /\ micWriter' = IF s > MicFrames THEN [micWriter EXCEPT !.op = "none"]
                      ELSE [micWriter EXCEPT !.step = s + 1]
  BY DEF ResetStep
<1>2. /\ MicFrames \in Nat \ {0} /\ generation \in Nat /\ resets \in Nat /\ firstFrame \in Nat
      /\ latest \in Nat
      /\ samples \in [0..MicFrames - 1 -> SampleRecords] /\ micReader \in MicReaders
      /\ micWriter \in MicWriters /\ generation = 2 * resets + 1
  BY <1>1, MicBufferAssumption DEF MicInv, MicTyped, Generations
<1>3. /\ s \in Nat /\ micWriter.frame \in Nat /\ s \in 0..MicFrames + 1
      /\ \A x \in 0..MicFrames - 1 : x < s - 1 => samples[x].frame = 0
  BY <1>1, <1>2, WriterFields DEF MicInv, ResetProgress
<1>4. micReader.step \in 0..5 /\ micReader.generation \in Nat
  BY <1>2, ReaderFields
<1>5. firstFrame' \in Nat
  BY <1>1, <1>2, <1>3
<1>6. CASE s <= MicFrames
  <2>1. generation' = generation /\ micWriter' = [micWriter EXCEPT !.step = s + 1]
    <3>1. ~(s > MicFrames)
      BY ONLY <1>2, <1>3, <1>6
    <3> HIDE DEF s
    <3> QED
      BY ONLY <1>1, <3>1
  <2>2. micWriter' \in MicWriters /\ micWriter'.op = "reset" /\ micWriter'.step = s + 1
    <3>1. s + 1 \in Nat /\ micWriter.op = "reset" /\ micWriter \in MicWriters
      <4>1. s + 1 \in Nat
        BY ONLY <1>3
      <4>2. micWriter.op = "reset" /\ micWriter \in MicWriters
        BY ONLY <1>1, <1>2
      <4> QED
        BY ONLY <4>1, <4>2
    <3> QED
      BY <2>1, <3>1, WriterMoves
  <2>3. /\ samples' \in [0..MicFrames - 1 -> SampleRecords]
        /\ \A x \in 0..MicFrames - 1 :
             samples'[x].bits = samples[x].bits /\ (x < s => samples'[x].frame = 0)
    <3>1. CASE s = 0
      BY <1>1, <1>2, <3>1
    <3>2. CASE s # 0
      <4> DEFINE v == [samples[s - 1] EXCEPT !.frame = 0]
      <4>1. s - 1 \in 0..MicFrames - 1 /\ s \in 1..MicFrames
        BY <1>2, <1>3, <1>6, <3>2
      <4>2. v \in SampleRecords /\ v.frame = 0 /\ v.bits = samples[s - 1].bits
        BY <1>2, <4>1 DEF SampleRecords
      <4>3. samples' = [samples EXCEPT ![s - 1] = v]
        BY <1>1, <4>1
      <4> HIDE DEF v
      <4>4. samples' \in [0..MicFrames - 1 -> SampleRecords]
        BY <1>2, <4>2, <4>3
      <4>5. ASSUME NEW x \in 0..MicFrames - 1
            PROVE  samples'[x].bits = samples[x].bits /\ (x < s => samples'[x].frame = 0)
        <5>1. CASE x = s - 1
          BY <1>2, <4>2, <4>3, <5>1
        <5>2. CASE x # s - 1
          <6>1. samples'[x] = samples[x]
            BY <1>2, <4>3, <5>2
          <6>2. x < s => x < s - 1
            BY <1>2, <1>3, <5>2
          <6> QED
            BY <1>3, <6>1, <6>2
        <5> QED
          BY <5>1, <5>2
      <4> QED
        BY <4>4, <4>5
    <3> QED
      BY <3>1, <3>2
  <2>4. MicTyped'
    BY <1>1, <1>2, <1>5, <2>1, <2>2, <2>3 DEF MicTyped
  <2>5. Generations'
    BY <1>1, <1>2, <2>1, <2>2 DEF Generations
  <2>6. ResetProgress' /\ WriteProgress'
    <3>1. s + 1 \in 0..MicFrames + 1 /\ micWriter'.step - 1 = s
      BY <1>2, <1>3, <1>6, <2>2
    <3> HIDE DEF s
    <3> QED
      BY <2>2, <2>3, <3>1 DEF ResetProgress, WriteProgress
  <2>7. StampsTell'
    BY <1>1, <2>2, <2>3 DEF MicInv, StampsTell, SampleTells
  <2>8. ReaderTells'
    BY <1>1, <1>4, <2>1 DEF MicInv, ReaderTells
  <2> QED
    BY <2>4, <2>5, <2>6, <2>7, <2>8 DEF MicInv
<1>7. CASE s > MicFrames
  <2>1. /\ generation' = generation + 1 /\ micWriter' = [micWriter EXCEPT !.op = "none"]
        /\ samples' = samples
    <3>1. s \notin 1..MicFrames /\ s > MicFrames
      BY ONLY <1>2, <1>3, <1>7
    <3> HIDE DEF s
    <3> QED
      BY ONLY <1>1, <3>1
  <2>2. micWriter' \in MicWriters /\ micWriter'.op = "none"
    BY <1>2, <2>1, WriterMoves
  <2>3. \A x \in 0..MicFrames - 1 : samples[x].frame = 0
    BY <1>2, <1>3, <1>7
  <2>4. MicTyped'
    BY <1>1, <1>2, <1>5, <2>1, <2>2 DEF MicTyped
  <2>5. Generations'
    BY <1>1, <1>2, <2>1, <2>2 DEF Generations
  <2>6. ResetProgress' /\ WriteProgress'
    BY <2>2 DEF ResetProgress, WriteProgress
  <2>7. StampsTell'
    BY <1>1, <2>1, <2>3 DEF MicInv, StampsTell, SampleTells
  <2>8. ReaderTells'
    <3>1. micReader.step > 0 => /\ micReader.generation <= generation
                                /\ micReader.step < 5 => micReader.value = NoBits
      BY DEF MicInv, ReaderTells
    <3>2. /\ micReader.step > 0 => micReader.generation <= generation'
          /\ micReader.step > 0 => micReader.generation # generation'
      BY ONLY <1>2, <1>4, <2>1, <3>1
    <3>3. micReader' = micReader
      BY ONLY <1>1
    <3> QED
      BY ONLY <3>1, <3>2, <3>3 DEF ReaderTells, NoBits
  <2> QED
    BY <2>4, <2>5, <2>6, <2>7, <2>8 DEF MicInv
<1> QED
  BY <1>2, <1>3, <1>6, <1>7

\* PLANKMicBufferWrite begins.
LEMMA MicWriteBegins ==
  ASSUME MicInv, NEW f \in 0..MaxFrame, WriteFrame(f)
  PROVE  MicInv'
<1>1. /\ micWriter.op = "none" /\ micWriter' = [op |-> "write", step |-> 0, frame |-> f]
      /\ f > latest - MicFrames /\ latest' = (IF f > latest THEN f ELSE latest)
      /\ samples' = samples /\ generation' = generation /\ resets' = resets
      /\ firstFrame' = firstFrame /\ micReader' = micReader
  BY DEF WriteFrame
<1>2. /\ MicFrames \in Nat \ {0} /\ generation \in Nat /\ resets \in Nat /\ firstFrame \in Nat
      /\ latest \in Nat /\ f \in Nat
      /\ samples \in [0..MicFrames - 1 -> SampleRecords] /\ micReader \in MicReaders
  BY <1>1, MicBufferAssumption DEF MicInv, MicTyped
<1>3. latest' \in Nat /\ latest <= latest' /\ f <= latest' /\ f > latest' - MicFrames
  BY <1>1, <1>2
<1>4. micWriter' \in MicWriters /\ micWriter'.op = "write" /\ micWriter'.step = 0 /\ micWriter'.frame = f
  BY <1>1, <1>2 DEF MicWriters
<1>5. MicTyped'
  BY <1>1, <1>2, <1>3, <1>4 DEF MicTyped
<1>6. Generations' /\ ResetProgress'
  BY <1>1, <1>4 DEF MicInv, Generations, ResetProgress
<1>7. WriteProgress'
  BY <1>3, <1>4 DEF WriteProgress
<1>8. StampsTell'
  <2> SUFFICES ASSUME NEW x \in 0..MicFrames - 1 PROVE SampleTells(x, samples[x])'
    BY DEF StampsTell
  <2>1. samples[x].bits.frame \in Int /\ SampleTells(x, samples[x])
    BY <1>2, SampleFields DEF MicInv, StampsTell
  <2> QED
    BY <1>1, <1>2, <1>3, <2>1 DEF SampleTells
<1>9. ReaderTells'
  BY <1>1, <1>4 DEF MicInv, ReaderTells, ReaderKnows
<1> QED
  BY <1>5, <1>6, <1>7, <1>8, <1>9 DEF MicInv

\* PLANKMicBufferWrite stores.
LEMMA MicWriteStores ==
  ASSUME MicInv, WriteStore
  PROVE  MicInv'
<1> DEFINE f == micWriter.frame
           i == Slot(f)
           s == micWriter.step
           v == samples'[i]
<1>1. /\ micWriter.op = "write"
      /\ samples' = IF s = 0 THEN [samples EXCEPT ![i].frame = 0]
                    ELSE IF s = 1 THEN [samples EXCEPT ![i].bits = [frame |-> f, reset |-> resets]]
                    ELSE [samples EXCEPT ![i].frame = f + 1]
      /\ micWriter' = IF s = 2 THEN [micWriter EXCEPT !.op = "none"]
                      ELSE [micWriter EXCEPT !.step = s + 1]
      /\ generation' = generation /\ resets' = resets /\ latest' = latest
      /\ firstFrame' = firstFrame /\ micReader' = micReader
  BY DEF WriteStore, Slot
<1>2. /\ MicFrames \in Nat \ {0} /\ generation \in Nat /\ resets \in Nat /\ firstFrame \in Nat
      /\ latest \in Nat /\ micWriter \in MicWriters
      /\ samples \in [0..MicFrames - 1 -> SampleRecords] /\ micReader \in MicReaders
  BY MicBufferAssumption DEF MicInv, MicTyped
<1>3. f \in Nat /\ i \in 0..MicFrames - 1 /\ s \in Nat
  BY <1>2, WriterFields, SlotIn
<1>4. /\ s \in 0..2 /\ f <= latest /\ f > latest - MicFrames
      /\ s > 0 => samples[i].frame = 0
      /\ s = 2 => samples[i].bits = [frame |-> f, reset |-> resets]
  BY <1>1 DEF MicInv, WriteProgress
<1>5. s = 0 \/ s = 1 \/ s = 2
  BY <1>4
<1>6. samples[i] \in SampleRecords
  BY <1>2, <1>3
<1>7. /\ micWriter' \in MicWriters /\ micWriter'.frame = f
      /\ s = 2 => micWriter'.op = "none"
      /\ s # 2 => micWriter'.op = "write" /\ micWriter'.step = s + 1
  <2>1. CASE s = 2
    BY <1>1, <1>2, <2>1, WriterMoves
  <2>2. CASE s # 2
    <3>1. s + 1 \in Nat
      BY <1>3
    <3> QED
      BY <1>1, <1>2, <2>2, <3>1, WriterMoves
  <2> QED
    BY <2>1, <2>2
<1> HIDE DEF i, s, f
<1>8. /\ v \in SampleRecords /\ samples' = [samples EXCEPT ![i] = v]
      /\ s = 0 => v.frame = 0 /\ v.bits = samples[i].bits
      /\ s = 1 => v.frame = 0 /\ v.bits = [frame |-> f, reset |-> resets]
      /\ s = 2 => v.frame = f + 1 /\ v.bits = samples[i].bits
  <2>1. CASE s = 0
    <3> DEFINE w == [samples[i] EXCEPT !.frame = 0]
    <3>1. w \in SampleRecords /\ w.frame = 0 /\ w.bits = samples[i].bits
      BY <1>6 DEF SampleRecords
    <3>2. samples' = [samples EXCEPT ![i] = w]
      BY <1>1, <2>1
    <3> HIDE DEF w
    <3>3. v = w
      BY <1>2, <1>3, <3>2
    <3> HIDE DEF v
    <3> QED
      BY <2>1, <3>1, <3>2, <3>3
  <2>2. CASE s = 1
    <3> DEFINE b == [frame |-> f, reset |-> resets]
               w == [samples[i] EXCEPT !.bits = b]
    <3>1. b \in Payload
      BY <1>2, <1>3 DEF Payload
    <3>2. samples' = [samples EXCEPT ![i] = w]
      BY <1>1, <2>2
    <3> HIDE DEF b
    <3>3. w \in SampleRecords /\ w.frame = samples[i].frame /\ w.bits = b
      BY <1>6, <3>1 DEF SampleRecords
    <3> HIDE DEF w
    <3>4. v = w
      BY <1>2, <1>3, <3>2
    <3>5. samples[i].frame = 0
      BY <1>4, <2>2
    <3> HIDE DEF v
    <3> QED
      BY <2>2, <3>2, <3>3, <3>4, <3>5 DEF b
  <2>3. CASE s = 2
    <3> DEFINE w == [samples[i] EXCEPT !.frame = f + 1]
    <3>1. w \in SampleRecords /\ w.frame = f + 1 /\ w.bits = samples[i].bits
      BY <1>3, <1>6 DEF SampleRecords
    <3>2. samples' = [samples EXCEPT ![i] = w]
      BY <1>1, <2>3
    <3> HIDE DEF w
    <3>3. v = w
      BY <1>2, <1>3, <3>2
    <3> HIDE DEF v
    <3> QED
      BY <2>3, <3>1, <3>2, <3>3
  <2> QED
    BY <1>5, <2>1, <2>2, <2>3
<1> HIDE DEF v
<1>9. \A x \in 0..MicFrames - 1 : samples'[x] = IF x = i THEN v ELSE samples[x]
  BY <1>2, <1>8
<1>10. samples[i].bits.reset = resets => f >= samples[i].bits.frame
  <2> DEFINE g == samples[i].bits.frame
  <2> SUFFICES ASSUME samples[i].bits.reset = resets PROVE f >= g
    OBVIOUS
  <2>1. g \in Int /\ (g \in Nat \/ g = -1)
    BY <1>6, SampleFields
  <2>2. g <= latest /\ (g = -1 \/ Slot(g) = i)
    BY <1>3 DEF MicInv, StampsTell, SampleTells
  <2> HIDE DEF g
  <2>3. CASE g = -1
    BY <1>3, <2>3
  <2>4. CASE g # -1
    <3>1. g \in Nat /\ f > g - MicFrames /\ Slot(f) = Slot(g)
      BY <1>2, <1>3, <1>4, <2>1, <2>2, <2>4 DEF i
    <3> QED
      BY <1>3, <3>1, SlotNotBack
  <2> QED
    BY <2>3, <2>4
<1>11. MicTyped'
  <2>1. samples' \in [0..MicFrames - 1 -> SampleRecords]
    BY <1>2, <1>8
  <2> QED
    BY <1>1, <1>2, <1>7, <2>1 DEF MicTyped
<1>12. Generations' /\ ResetProgress'
  BY <1>1, <1>5, <1>7 DEF MicInv, Generations, ResetProgress
<1>13. WriteProgress'
  <2> SUFFICES ASSUME s # 2 PROVE WriteProgress'
    BY <1>7 DEF WriteProgress
  <2>1. Slot(micWriter'.frame) = i /\ samples'[i] = v
    BY <1>3, <1>7, <1>9 DEF i
  <2>2. v.frame = 0 /\ (s + 1 = 2 => v.bits = [frame |-> f, reset |-> resets]) /\ s + 1 \in 0..2
    BY <1>5, <1>8
  <2> QED
    BY <1>1, <1>4, <1>7, <2>1, <2>2 DEF WriteProgress
<1>14. SampleTells(i, v)
  <2>1. SampleTells(i, samples[i])
    BY <1>3 DEF MicInv, StampsTell
  <2>2. CASE s = 0
    BY <1>8, <2>1, <2>2 DEF SampleTells
  <2>3. CASE s = 1 \/ s = 2
    <3>1. (v.frame = 0 \/ v.frame = f + 1) /\ v.bits.frame = f /\ v.bits.reset = resets
      BY <1>4, <1>8, <2>3
    <3>2. Slot(f) = i
      BY DEF i
    <3> QED
      BY <1>2, <1>4, <3>1, <3>2 DEF SampleTells
  <2> QED
    BY <1>5, <2>2, <2>3
<1>15. StampsTell'
  <2>1. ASSUME NEW x \in 0..MicFrames - 1 PROVE SampleTells(x, samples'[x])
    <3>1. CASE x = i
      BY <1>9, <1>14, <3>1
    <3>2. CASE x # i
      BY <1>9, <3>2 DEF MicInv, StampsTell
    <3> QED
      BY <3>1, <3>2
  <2> QED
    BY <1>1, <2>1 DEF StampsTell, SampleTells
<1>16. ReaderTells'
  <2> DEFINE j == Slot(micReader.frame)
  <2>1. j \in 0..MicFrames - 1
    BY <1>2, ReaderFields, SlotIn
  <2> DEFINE old == samples[j].bits
             new == samples'[j].bits
  <2>2. old.reset = resets => new.reset = resets /\ old.frame <= new.frame
    <3>1. CASE j # i
      <4>1. samples[j].bits.frame \in Int
        BY <1>2, <2>1, SampleFields
      <4> QED
        BY <1>9, <2>1, <3>1, <4>1
    <3>2. CASE j = i
      <4>1. samples'[j] = v /\ samples[i].bits.frame \in Int
        BY <1>6, <1>9, <2>1, <3>2, SampleFields
      <4>2. CASE s = 1
        BY <1>8, <1>10, <3>2, <4>1, <4>2
      <4>3. CASE s # 1
        BY <1>5, <1>8, <3>2, <4>1, <4>3
      <4> QED
        BY <4>2, <4>3
    <3> QED
      BY <3>1, <3>2
  <2>3. old.frame \in Int /\ new.frame \in Int
    <3>1. samples[j] \in SampleRecords /\ samples'[j] \in SampleRecords
      BY <1>2, <1>11, <2>1 DEF MicTyped
    <3> QED
      BY <3>1, SampleFields
  <2>4. micReader.frame \in Nat /\ micReader.bits.frame \in Int
    BY <1>2, ReaderFields
  <2>5. micWriter'.op # "reset" /\ micWriter.op # "reset"
    BY <1>1, <1>5, <1>7
  <2>6. ReaderKnows(micReader, old) => ReaderKnows(micReader, new)
    <3> HIDE DEF old, new
    <3> QED
      BY <2>2, <2>3, <2>4 DEF ReaderKnows
  <2>7. ReaderKnows(micReader, new) => ReaderKnows(micReader, samples[Slot(micReader.frame)].bits)'
    BY <1>1 DEF ReaderKnows
  <2>8. ReaderTells
    BY DEF MicInv
  <2> QED
    BY <1>1, <2>5, <2>6, <2>7, <2>8 DEF ReaderTells
<1> QED
  BY <1>11, <1>12, <1>13, <1>15, <1>16 DEF MicInv

\* PLANKMicBufferRead.  It keeps the invariant, and what it returns is silence or
\* the sample of its frame since the last reset.
LEMMA MicReads ==
  ASSUME MicInv, ReadLoad \/ ReadFinish \/ \E f \in 0..MaxFrame : ReadFrame(f)
  PROVE  /\ MicInv'
         /\ (micReader.step = 5 /\ micReader'.step = 0 /\ micReader'.value # NoBits) =>
              micReader'.value = [frame |-> micReader.frame, reset |-> resets]
<1> DEFINE g == micReader.frame
           j == Slot(g)
           cell == samples[j]
           Returns == (micReader.step = 5 /\ micReader'.step = 0 /\ micReader'.value # NoBits) =>
                        micReader'.value = [frame |-> micReader.frame, reset |-> resets]
<1>1. /\ generation' = generation /\ firstFrame' = firstFrame /\ samples' = samples
      /\ resets' = resets /\ latest' = latest /\ micWriter' = micWriter
  BY DEF ReadLoad, ReadFinish, ReadFrame
<1>2. /\ MicFrames \in Nat \ {0} /\ generation \in Nat /\ resets \in Nat /\ firstFrame \in Nat
      /\ samples \in [0..MicFrames - 1 -> SampleRecords] /\ micReader \in MicReaders
  BY MicBufferAssumption DEF MicInv, MicTyped
<1>3. /\ g \in Nat /\ j \in 0..MicFrames - 1 /\ micReader.step \in 0..5 /\ micReader.generation \in Nat
      /\ micReader.bits \in Payload /\ micReader.bits.frame \in Int /\ micReader.bits.reset \in Nat
      /\ micReader.before \in Nat
  BY <1>2, ReaderFields, SlotIn
<1>4. /\ cell \in SampleRecords /\ cell.frame \in Nat /\ cell.bits \in Payload
      /\ cell.bits.frame \in Int
  BY <1>2, <1>3, SampleFields
<1>5. cell.frame # 0 /\ micWriter.op # "reset" =>
        cell.frame = cell.bits.frame + 1 /\ cell.bits.reset = resets
  BY <1>3 DEF MicInv, StampsTell, SampleTells
<1>6. NoBits \in Payload
  BY DEF NoBits, Payload
<1>7. /\ Generations' /\ ResetProgress' /\ WriteProgress' /\ StampsTell'
      /\ micReader' \in MicReaders => MicTyped'
  BY <1>1 DEF MicInv, MicTyped, Generations, ResetProgress, WriteProgress, StampsTell, SampleTells
<1>8. SUFFICES micReader' \in MicReaders /\ ReaderTells' /\ Returns
  BY <1>7 DEF MicInv
<1>9. ReaderTells
  BY DEF MicInv
<1> HIDE DEF cell, j, g, Returns
<1>10. ASSUME NEW f \in 0..MaxFrame, ReadFrame(f) PROVE micReader' \in MicReaders /\ ReaderTells' /\ Returns
  <2>1. /\ micReader' = [step |-> 1, generation |-> generation, first |-> 0, frame |-> f,
                         before |-> 0, bits |-> NoBits, value |-> NoBits]
        /\ generation % 2 = 0 /\ micReader.step = 0 /\ f \in Nat
    BY <1>10, MicBufferAssumption DEF ReadFrame
  <2>2. micReader' \in MicReaders
    BY <1>2, <1>6, <2>1 DEF MicReaders
  <2>3. micWriter.op # "reset"
    <3>1. (2 * resets + 1) % 2 = 1
      BY <1>2
    <3> QED
      BY <2>1, <3>1 DEF MicInv, Generations
  <2>4. micReader'.step = 1 /\ micReader'.generation = generation /\ micReader'.value = NoBits
    BY <2>1
  <2> QED
    BY <1>1, <1>2, <2>1, <2>2, <2>3, <2>4 DEF ReaderTells, ReaderKnows, Returns
<1>11. CASE ReadFinish
  <2>1. /\ micReader.step = 5
        /\ micReader' = [micReader EXCEPT !.step = 0,
                           !.value = IF micReader.generation = generation THEN micReader.value ELSE NoBits]
    BY <1>11 DEF ReadFinish
  <2>2. /\ micReader' \in MicReaders /\ micReader'.step = 0
        /\ micReader'.value = IF micReader.generation = generation THEN micReader.value ELSE NoBits
    <3> DEFINE b == IF micReader.generation = generation THEN micReader.value ELSE NoBits
    <3>1. b \in Payload
      BY <1>2, <1>6, ReaderFields
    <3>2. micReader' = [micReader EXCEPT !.step = 0, !.value = b] /\ 0 \in Nat /\ 0 \in 0..5
      BY <2>1
    <3> HIDE DEF b
    <3>3. micReader' \in MicReaders /\ micReader'.step = 0 /\ micReader'.value = b
      BY <1>2, <3>1, <3>2 DEF MicReaders
    <3> QED
      BY <3>3 DEF b
  <2>3. micReader.generation = generation =>
          micReader.value \in {NoBits, [frame |-> micReader.frame, reset |-> resets]}
    BY <1>9, <2>1 DEF ReaderTells, ReaderKnows
  <2> QED
    BY <2>2, <2>3 DEF ReaderTells, Returns
<1>12. CASE ReadLoad
  <2>1. /\ micReader.step \in 1..4
        /\ micReader.step = 1 =>
             micReader' = [micReader EXCEPT !.first = firstFrame, !.step = IF g < firstFrame THEN 5 ELSE 2]
        /\ micReader.step = 2 => micReader' = [micReader EXCEPT !.before = cell.frame, !.step = 3]
        /\ micReader.step = 3 => micReader' = [micReader EXCEPT !.bits = cell.bits, !.step = 4]
        /\ micReader.step = 4 =>
             micReader' = [micReader EXCEPT
                             !.value = IF micReader.before = g + 1 /\ cell.frame = micReader.before
                                       THEN micReader.bits ELSE NoBits,
                             !.step = 5]
    BY <1>12 DEF ReadLoad, Slot, cell, j, g
  <2>2. /\ micReader.generation <= generation /\ micReader.value = NoBits
        /\ micReader.generation = generation =>
             micWriter.op # "reset" /\ ReaderKnows(micReader, cell.bits)
    BY <1>9, <2>1 DEF ReaderTells, cell, j, g
  <2>3. Returns
    BY <2>1 DEF Returns
  <2> DEFINE Loaded ==
        /\ micReader' \in MicReaders /\ micReader'.frame = g
        /\ micReader'.generation = micReader.generation
        /\ micReader'.step < 5 => micReader'.value = NoBits
        /\ micReader.generation = generation => ReaderKnows(micReader', cell.bits)
  <2>4. Loaded => micReader' \in MicReaders /\ ReaderTells'
    <3>1. Slot(g) = j /\ samples'[j] = cell
      BY <1>1 DEF j, cell
    <3> QED
      BY <1>1, <2>2, <3>1 DEF ReaderTells, ReaderKnows
  <2> DEFINE b == IF micReader.before = g + 1 /\ cell.frame = micReader.before
                  THEN micReader.bits ELSE NoBits
             n == IF g < firstFrame THEN 5 ELSE 2
  <2>5. g = micReader.frame
    BY DEF g
  <2>6. CASE micReader.step = 1
    <3>1. n \in {2, 5} /\ n \in 0..5
      OBVIOUS
    <3>2. micReader' = [micReader EXCEPT !.first = firstFrame, !.step = n]
      BY <2>1, <2>6
    <3> HIDE DEF n
    <3>3. /\ micReader' \in MicReaders /\ micReader'.frame = g /\ micReader'.step = n
          /\ micReader'.generation = micReader.generation /\ micReader'.value = NoBits
      BY <1>2, <1>6, <2>2, <2>5, <3>1, <3>2 DEF MicReaders
    <3> QED
      BY <2>3, <2>4, <3>1, <3>3 DEF ReaderKnows
  <2>7. CASE micReader.step = 2
    <3>1. micReader' = [micReader EXCEPT !.before = cell.frame, !.step = 3] /\ 3 \in 0..5
      BY <2>1, <2>7
    <3>2. /\ micReader' \in MicReaders /\ micReader'.frame = g /\ micReader'.step = 3
          /\ micReader'.generation = micReader.generation /\ micReader'.value = NoBits
          /\ micReader'.before = cell.frame
      BY <1>2, <1>4, <1>6, <2>2, <2>5, <3>1 DEF MicReaders
    <3>3. micReader.generation = generation /\ cell.frame = g + 1 =>
            cell.bits.reset = resets /\ g <= cell.bits.frame
      BY <1>3, <1>4, <1>5, <2>2
    <3> QED
      BY <2>3, <2>4, <3>2, <3>3 DEF ReaderKnows
  <2>8. CASE micReader.step = 3
    <3>1. micReader' = [micReader EXCEPT !.bits = cell.bits, !.step = 4] /\ 4 \in 0..5 /\ 4 \in Nat
      BY <2>1, <2>8
    <3>2. /\ micReader' \in MicReaders /\ micReader'.frame = g /\ micReader'.step = 4
          /\ micReader'.generation = micReader.generation /\ micReader'.value = NoBits
          /\ micReader'.before = micReader.before /\ micReader'.bits = cell.bits
      BY ONLY <1>2, <1>4, <2>2, <2>5, <3>1 DEF MicReaders
    <3>3. micReader.generation = generation /\ micReader.before = g + 1 =>
            cell.bits.reset = resets /\ g <= cell.bits.frame
      BY <2>2, <2>5, <2>8 DEF ReaderKnows
    <3> QED
      BY <1>4, <2>3, <2>4, <3>2, <3>3 DEF ReaderKnows
  <2>9. CASE micReader.step = 4
    <3>1. b \in Payload /\ 5 \in 0..5 /\ 5 \in Nat
      BY <1>3, <1>6
    <3>2. micReader' = [micReader EXCEPT !.value = b, !.step = 5]
      BY <2>1, <2>9
    <3>3. micReader.generation = generation => b \in {NoBits, [frame |-> g, reset |-> resets]}
      <4> SUFFICES ASSUME micReader.generation = generation, micReader.before = g + 1,
                          cell.frame = micReader.before
                   PROVE  micReader.bits = [frame |-> g, reset |-> resets]
        OBVIOUS
      <4>1. /\ micReader.bits.reset = resets
            /\ g <= micReader.bits.frame /\ micReader.bits.frame <= cell.bits.frame
        BY <2>2, <2>5, <2>9 DEF ReaderKnows
      <4>2. cell.bits.frame = g
        BY <1>3, <1>4, <1>5, <2>2
      <4>3. micReader.bits.frame = g
        BY <1>3, <1>4, <4>1, <4>2
      <4> QED
        BY <1>3, <4>1, <4>3 DEF Payload
    <3> HIDE DEF b
    <3>4. /\ micReader' \in MicReaders /\ micReader'.frame = g /\ micReader'.step = 5
          /\ micReader'.generation = micReader.generation /\ micReader'.value = b
      BY ONLY <1>2, <2>5, <3>1, <3>2 DEF MicReaders
    <3> QED
      BY <2>3, <2>4, <3>3, <3>4 DEF ReaderKnows
  <2>10. micReader.step = 1 \/ micReader.step = 2 \/ micReader.step = 3 \/ micReader.step = 4
    BY <2>1
  <2> QED
    BY <2>3, <2>6, <2>7, <2>8, <2>9, <2>10
<1> QED
  BY <1>10, <1>11, <1>12

\* Every step keeps the invariant, and a read that returns returns what it should.
LEMMA MicStep ==
  ASSUME MicInv, [MicBufferNext]_micBufferVars
  PROVE  /\ MicInv'
         /\ (micReader.step = 5 /\ micReader'.step = 0 /\ micReader'.value # NoBits) =>
              micReader'.value = [frame |-> micReader.frame, reset |-> resets]
<1>1. CASE UNCHANGED micBufferVars
  <2>1. /\ generation' = generation /\ firstFrame' = firstFrame /\ samples' = samples
        /\ resets' = resets /\ latest' = latest /\ micWriter' = micWriter /\ micReader' = micReader
    BY <1>1 DEF micBufferVars
  <2> QED
    BY <2>1 DEF MicInv, MicTyped, Generations, ResetProgress, WriteProgress, StampsTell,
                SampleTells, ReaderTells, ReaderKnows
<1>2. CASE ReadLoad \/ ReadFinish \/ \E f \in 0..MaxFrame : ReadFrame(f)
  BY <1>2, MicReads
<1>3. CASE ResetStep \/ WriteStore \/ \E f \in 0..MaxFrame : ResetBegin(f) \/ WriteFrame(f)
  <2>1. MicInv'
    BY <1>3, MicResetBegins, MicResetGoesOn, MicWriteBegins, MicWriteStores
  <2>2. micReader' = micReader
    BY <1>3 DEF ResetStep, WriteStore, ResetBegin, WriteFrame
  <2> QED
    BY <2>1, <2>2
<1> QED
  BY <1>1, <1>2, <1>3 DEF MicBufferNext

\* PLANKMicBufferRead never returns a sample of another frame, or one from before the
\* last reset, whatever the writer does between its loads.
THEOREM MicRead == MicBufferSpec => MicReadCurrent
<1>1. MicInv /\ [MicBufferNext]_micBufferVars =>
        [(micReader.step = 5 /\ micReader'.step = 0 /\ micReader'.value # NoBits) =>
           micReader'.value = [frame |-> micReader.frame, reset |-> resets]]_micBufferVars
  BY MicStep
<1>2. MicInv /\ [MicBufferNext]_micBufferVars => MicInv'
  BY MicStep
<1> QED
  BY <1>1, <1>2, MicStart, PTL DEF MicBufferSpec, MicReadCurrent

(***************************************************************************)
(* audio-tap-buffer.h.  The blocks between the two indices are whole and   *)
(* ascend from the last one the encoder got.  They are consecutive up to   *)
(* the last block the source delivered unless an overrun is waiting to be  *)
(* noticed, and one that is noticed late has left its mark in `gap'.       *)
(***************************************************************************)
Blocks == [number : Nat, whole : BOOLEAN]
Pushers == [pc : {"idle", "fill"}, write : Nat]
Drains ==
  [pc : {"idle", "discard", "drop", "peek", "pop"}, handled : Nat, last : Nat, gap : BOOLEAN]

TapTyped ==
  /\ ring \in [0..TapSlots - 1 -> Blocks]
  /\ readIndex \in 0..IndexRange - 1 /\ writeIndex \in 0..IndexRange - 1
  /\ overruns \in Nat /\ failed \in BOOLEAN /\ stopped \in BOOLEAN /\ source \in Nat
  /\ pusher \in Pushers /\ drain \in Drains

\* The slot an index stands for, and how far the writer is ahead of the reader.
Cell(index) == index % TapSlots
Ahead ==
  IF writeIndex >= readIndex THEN writeIndex - readIndex ELSE writeIndex - readIndex + IndexRange

\* The blocks the reader will meet, and the last block whose fate is settled.
Waiting == [k \in 0..Ahead - 1 |-> ring[Cell(readIndex + k)]]
Settled == IF pusher.pc = "fill" THEN source - 1 ELSE source

\* The writer stays within the ring and fills the slot behind the last block.
WriterInside ==
  /\ Ahead <= TapSlots
  /\ pusher.pc = "fill" =>
       /\ pusher.write = writeIndex /\ Ahead < TapSlots
       /\ source > 0 /\ ring[Cell(writeIndex)].number = source

BlocksAscend ==
  /\ drain.last <= Settled
  /\ \A k \in 0..Ahead - 1 :
       /\ Waiting[k].whole /\ Waiting[k].number <= Settled
       /\ k > 0 \/ drain.pc # "pop" => drain.last < Waiting[k].number
  /\ \A k, m \in 0..Ahead - 1 : k < m => Waiting[k].number < Waiting[m].number

\* No overrun to notice: the blocks are the last ones of the source.
BlocksFollow ==
  ~failed /\ overruns = 0 /\ drain.pc # "drop" =>
    /\ \A k \in 0..Ahead - 1 : Waiting[k].number = Settled - Ahead + 1 + k
    /\ drain.pc # "pop" /\ ~drain.gap => drain.last = Settled - Ahead

DrainTells ==
  /\ drain.pc = "pop" => Ahead > 0 /\ Waiting[0].number = drain.last /\ ~drain.gap
  /\ drain.pc = "drop" => drain.gap
  /\ ~failed /\ drain.pc = "peek" /\ ~drain.gap /\ overruns > 0 =>
       Ahead > 0 /\ Waiting[0].number = drain.last + 1

TapInv == TapTyped /\ WriterInside /\ BlocksAscend /\ BlocksFollow /\ DrainTells

\* Slots of the ring: an index has one, two indices less than a ring apart have
\* different ones, and an index that wraps keeps its own.
LEMMA CellIn == ASSUME NEW x \in Nat PROVE Cell(x) \in 0..TapSlots - 1
  BY Division, TapAssumption DEF Cell

LEMMA CellApart ==
  ASSUME NEW x \in Nat, NEW y \in Nat, x < y, y < x + TapSlots
  PROVE  Cell(x) # Cell(y)
<1>1. x > y - TapSlots
  BY TapAssumption
<1>2. Cell(x) = Cell(y) => x >= y
  BY <1>1, NotBack, TapAssumption DEF Cell
<1> QED
  BY <1>2

LEMMA Remainder ==
  ASSUME NEW n \in Nat \ {0}, NEW q \in Int, NEW m \in 0..n - 1
  PROVE  (n * q + m) % n = m
OBVIOUS

LEMMA CellWraps ==
  ASSUME NEW x \in Nat, x >= IndexRange
  PROVE  x - IndexRange \in Nat /\ Cell(x - IndexRange) = Cell(x)
<1> DEFINE n == TapSlots
           p == x \div n
           q == IndexRange \div n
           m == x % n
<1>1. n \in Nat \ {0} /\ IndexRange \in Nat /\ IndexRange % n = 0
  BY TapAssumption
<1>2. x = n * p + m /\ m \in 0..n - 1 /\ p \in Int
  BY <1>1, Division
<1>3. IndexRange = n * q + (IndexRange % n) /\ q \in Int
  BY <1>1, Division
<1> HIDE DEF n, p, q, m
<1>4. IndexRange = n * q
  BY <1>1, <1>3
<1>5. x - IndexRange = n * (p - q) + m
  BY <1>1, <1>2, <1>3, <1>4
<1>6. (n * (p - q) + m) % n = m
  <2> DEFINE e == p - q
  <2>1. e \in Int
    BY <1>2, <1>3
  <2> HIDE DEF e
  <2>2. (n * e + m) % n = m
    BY ONLY <1>1, <1>2, <2>1, Remainder
  <2> QED
    BY <2>2 DEF e
<1>7. x - IndexRange \in Nat
  BY <1>1
<1> QED
  BY <1>5, <1>6, <1>7 DEF Cell, n, m

\* The unsigned difference of the indices is how far the writer is ahead.
LEMMA AheadIs ==
  ASSUME TapTyped
  PROVE  /\ (writeIndex - readIndex) % IndexRange = Ahead /\ Ahead \in 0..IndexRange - 1
         /\ Cell(writeIndex) = Cell(readIndex + Ahead) /\ (Ahead = 0 <=> readIndex = writeIndex)
         /\ Waiting \in [0..Ahead - 1 -> Blocks]
<1> DEFINE d == writeIndex - readIndex
           x == readIndex + Ahead
           Goal == /\ d % IndexRange = Ahead /\ Ahead \in 0..IndexRange - 1
                   /\ Cell(writeIndex) = Cell(x) /\ (Ahead = 0 <=> readIndex = writeIndex)
<1>1. /\ IndexRange \in Nat \ {0} /\ readIndex \in 0..IndexRange - 1
      /\ writeIndex \in 0..IndexRange - 1 /\ ring \in [0..TapSlots - 1 -> Blocks]
  BY TapAssumption DEF TapTyped
<1>2. ASSUME d >= 0 PROVE Goal
  <2>1. Ahead = d /\ d \in 0..IndexRange - 1 /\ x = writeIndex
    BY <1>1, <1>2 DEF Ahead
  <2>2. d = 0 <=> readIndex = writeIndex
    BY <1>1
  <2>3. (IndexRange * 0 + d) % IndexRange = d /\ IndexRange * 0 + d = d
    BY <1>1, <2>1, Remainder
  <2> HIDE DEF d, x
  <2> QED
    BY <2>1, <2>2, <2>3
<1>3. ASSUME d < 0 PROVE Goal
  <2>1. /\ Ahead = d + IndexRange /\ Ahead \in 0..IndexRange - 1 /\ Ahead # 0
        /\ x \in Nat /\ x >= IndexRange /\ x - IndexRange = writeIndex
    BY <1>1, <1>3 DEF Ahead
  <2>2. (IndexRange * (-1) + Ahead) % IndexRange = Ahead
    BY <1>1, <2>1, Remainder
  <2>3. IndexRange * (-1) + Ahead = d /\ readIndex # writeIndex
    BY <1>1, <1>3, <2>1
  <2> HIDE DEF x, d
  <2>4. Cell(writeIndex) = Cell(x)
    BY <2>1, CellWraps
  <2> QED
    BY <2>1, <2>2, <2>3, <2>4
<1>4. Goal
  BY <1>1, <1>2, <1>3
<1>5. ASSUME NEW k \in 0..Ahead - 1 PROVE ring[Cell(readIndex + k)] \in Blocks
  <2>1. readIndex + k \in Nat
    BY <1>1, <1>4
  <2> QED
    BY <1>1, <2>1, CellIn
<1> QED
  BY <1>4, <1>5 DEF Waiting

\* An index wraps at its range.
LEMMA NextIndex ==
  ASSUME NEW x \in 0..IndexRange - 1
  PROVE  (x + 1) % IndexRange = (IF x + 1 = IndexRange THEN 0 ELSE x + 1)
<1>1. IndexRange \in Nat \ {0}
  BY TapAssumption
<1>2. CASE x + 1 = IndexRange
  <2>1. (IndexRange * 1 + 0) % IndexRange = 0 /\ IndexRange * 1 + 0 = x + 1
    BY <1>1, <1>2, Remainder
  <2> QED
    BY <1>2, <2>1
<1>3. CASE x + 1 # IndexRange
  <2> DEFINE y == x + 1
  <2>1. y \in 0..IndexRange - 1
    BY <1>1, <1>3
  <2> HIDE DEF y
  <2>2. (IndexRange * 0 + y) % IndexRange = y /\ IndexRange * 0 + y = y
    BY <1>1, <2>1, Remainder
  <2> QED
    BY <1>3, <2>2 DEF y
<1> QED
  BY <1>2, <1>3

\* The blocks waiting stay when the ring and the indices do, ...
LEMMA WaitingStays ==
  ASSUME ring' = ring, readIndex' = readIndex, writeIndex' = writeIndex
  PROVE  Ahead' = Ahead /\ Waiting' = Waiting
  BY DEF Ahead, Waiting

\* ... a store to the slot behind them does not touch them, ...
LEMMA WaitingUntouched ==
  ASSUME TapTyped, Ahead < TapSlots, NEW b \in Blocks,
         ring' = [ring EXCEPT ![Cell(writeIndex)] = b], readIndex' = readIndex
  PROVE  /\ ring' \in [0..TapSlots - 1 -> Blocks] /\ ring'[Cell(writeIndex)] = b
         /\ \A k \in 0..Ahead - 1 : ring'[Cell(readIndex + k)] = Waiting[k]
<1>1. /\ ring \in [0..TapSlots - 1 -> Blocks] /\ readIndex \in Nat /\ writeIndex \in Nat
      /\ TapSlots \in Nat
  BY TapAssumption DEF TapTyped
<1>2. Ahead \in Nat /\ Cell(writeIndex) = Cell(readIndex + Ahead)
  BY AheadIs, TapAssumption
<1>3. Cell(writeIndex) \in 0..TapSlots - 1
  BY <1>1, CellIn
<1>4. ASSUME NEW k \in 0..Ahead - 1 PROVE ring'[Cell(readIndex + k)] = Waiting[k]
  <2> DEFINE x == readIndex + k
             y == readIndex + Ahead
  <2>1. x \in Nat /\ y \in Nat /\ x < y /\ y < x + TapSlots
    BY <1>1, <1>2
  <2>2. Waiting[k] = ring[Cell(x)]
    BY DEF Waiting
  <2> HIDE DEF x, y
  <2>3. Cell(x) # Cell(y) /\ Cell(x) \in 0..TapSlots - 1
    BY <2>1, CellApart, CellIn
  <2>4. Cell(writeIndex) = Cell(y)
    BY <1>2 DEF y
  <2>5. ring'[Cell(x)] = ring[Cell(x)]
    BY <1>1, <2>3, <2>4
  <2> QED
    BY <2>2, <2>5 DEF x
<1> QED
  BY <1>1, <1>3, <1>4

\* ... the release of the write index adds it, ...
LEMMA WaitingGrows ==
  ASSUME TapTyped, Ahead < TapSlots, NEW b \in Blocks,
         ring' = [ring EXCEPT ![Cell(writeIndex)] = b], readIndex' = readIndex,
         writeIndex' = (writeIndex + 1) % IndexRange
  PROVE  /\ writeIndex' \in 0..IndexRange - 1 /\ Ahead' = Ahead + 1
         /\ \A k \in 0..Ahead - 1 : Waiting'[k] = Waiting[k]
         /\ Waiting'[Ahead] = b
<1>1. /\ TapSlots \in Nat /\ IndexRange \in Nat /\ IndexRange > TapSlots
      /\ readIndex \in 0..IndexRange - 1 /\ writeIndex \in 0..IndexRange - 1
  BY TapAssumption DEF TapTyped
<1>2. Ahead \in 0..IndexRange - 1 /\ Cell(writeIndex) = Cell(readIndex + Ahead)
  BY AheadIs
<1>3. writeIndex' = IF writeIndex + 1 = IndexRange THEN 0 ELSE writeIndex + 1
  BY <1>1, NextIndex
<1>4. writeIndex' \in 0..IndexRange - 1
  BY <1>1, <1>3
<1>5. Ahead' = Ahead + 1
  BY <1>1, <1>2, <1>3 DEF Ahead
<1>6. Waiting' = [k \in 0..Ahead |-> ring'[Cell(readIndex + k)]]
  <2>1. Ahead' - 1 = Ahead
    BY <1>2, <1>5
  <2> QED
    BY <2>1 DEF Waiting, Cell
<1>7. Ahead \in 0..Ahead /\ \A k \in 0..Ahead - 1 : k \in 0..Ahead
  BY <1>2
<1>8. ring'[Cell(readIndex + Ahead)] = b /\ \A k \in 0..Ahead - 1 : ring'[Cell(readIndex + k)] = Waiting[k]
  BY <1>2, WaitingUntouched
<1> QED
  BY <1>4, <1>5, <1>6, <1>7, <1>8

\* ... and PLANKTapPop removes the first.
LEMMA WaitingShrinks ==
  ASSUME TapTyped, Ahead > 0, ring' = ring, writeIndex' = writeIndex,
         readIndex' = (readIndex + 1) % IndexRange
  PROVE  /\ readIndex' \in 0..IndexRange - 1 /\ Ahead' = Ahead - 1
         /\ \A k \in 0..Ahead' - 1 : Waiting'[k] = Waiting[k + 1]
<1>1. /\ TapSlots \in Nat /\ IndexRange \in Nat /\ IndexRange > TapSlots
      /\ readIndex \in 0..IndexRange - 1 /\ writeIndex \in 0..IndexRange - 1
  BY TapAssumption DEF TapTyped
<1>2. Ahead \in 0..IndexRange - 1
  BY AheadIs
<1>3. readIndex' = IF readIndex + 1 = IndexRange THEN 0 ELSE readIndex + 1
  BY <1>1, NextIndex
<1>4. readIndex' \in 0..IndexRange - 1
  BY <1>1, <1>3
<1>5. Ahead' = Ahead - 1
  BY <1>1, <1>2, <1>3 DEF Ahead
<1>6. ASSUME NEW k \in 0..Ahead' - 1 PROVE Waiting'[k] = Waiting[k + 1]
  <2>1. k \in Nat /\ k + 1 \in 0..Ahead - 1
    BY <1>2, <1>5
  <2>2. Waiting'[k] = ring[Cell(readIndex' + k)] /\ Waiting[k + 1] = ring[Cell(readIndex + (k + 1))]
    BY <2>1 DEF Waiting, Cell
  <2>3. Cell(readIndex' + k) = Cell(readIndex + (k + 1))
    <3>1. CASE readIndex + 1 = IndexRange
      <4> DEFINE x == readIndex + (k + 1)
      <4>1. x \in Nat /\ x >= IndexRange /\ x - IndexRange = readIndex' + k
        BY <1>1, <1>3, <2>1, <3>1
      <4> HIDE DEF x
      <4>2. Cell(x - IndexRange) = Cell(x)
        BY <4>1, CellWraps
      <4> QED
        BY <4>1, <4>2 DEF x
    <3>2. CASE readIndex + 1 # IndexRange
      <4>1. readIndex' + k = readIndex + (k + 1)
        BY <1>1, <1>3, <2>1, <3>2
      <4> QED
        BY <4>1
    <3> QED
      BY <3>1, <3>2
  <2> QED
    BY <2>2, <2>3
<1> QED
  BY <1>4, <1>5, <1>6

\* The fields of the tap's records.
LEMMA TapFields ==
  ASSUME TapTyped
  PROVE  /\ pusher.pc \in {"idle", "fill"} /\ pusher.write \in Nat
         /\ drain.pc \in {"idle", "discard", "drop", "peek", "pop"} /\ drain.handled \in Nat
         /\ drain.last \in Nat /\ drain.gap \in BOOLEAN
         /\ Ahead \in Nat /\ source \in Nat /\ overruns \in Nat /\ TapSlots \in Nat \ {0}
         /\ \A k \in 0..Ahead - 1 :
              Waiting[k] \in Blocks /\ Waiting[k].number \in Nat /\ Waiting[k].whole \in BOOLEAN
<1>1. pusher.pc \in {"idle", "fill"} /\ pusher.write \in Nat
  BY DEF TapTyped, Pushers
<1>2. /\ drain.pc \in {"idle", "discard", "drop", "peek", "pop"} /\ drain.handled \in Nat
      /\ drain.last \in Nat /\ drain.gap \in BOOLEAN
  BY DEF TapTyped, Drains
<1>3. source \in Nat /\ overruns \in Nat /\ TapSlots \in Nat \ {0}
  BY TapAssumption DEF TapTyped
<1>4. Ahead \in Nat /\ Waiting \in [0..Ahead - 1 -> Blocks]
  BY AheadIs, TapAssumption
<1>5. \A b \in Blocks : b.number \in Nat /\ b.whole \in BOOLEAN
  BY DEF Blocks
<1> QED
  BY <1>1, <1>2, <1>3, <1>4, <1>5

\* The tap at rest.
LEMMA TapStart == TapInit => TapInv
<1> SUFFICES ASSUME TapInit PROVE TapInv
  OBVIOUS
<1>1. TapTyped
  <2>1. ring \in [0..TapSlots - 1 -> Blocks]
    BY DEF TapInit, Blocks
  <2>2. pusher \in Pushers /\ drain \in Drains
    BY DEF TapInit, Pushers, Drains
  <2>3. 0 \in 0..IndexRange - 1
    BY TapAssumption
  <2> QED
    BY <2>1, <2>2, <2>3 DEF TapInit, TapTyped
<1>2. /\ Ahead = 0 /\ drain.last = 0 /\ drain.pc = "idle" /\ pusher.pc = "idle" /\ source = 0
      /\ Settled = 0
  BY DEF TapInit, Ahead, Settled
<1>3. TapSlots \in Nat
  BY TapAssumption
<1> QED
  BY <1>1, <1>2, <1>3 DEF TapInv, WriterInside, BlocksAscend, BlocksFollow, DrainTells

\* PLANKTapPush up to the first store: the blocks waiting stay, and a lost block is
\* either counted or the end of the tap.
LEMMA TapPushBegins ==
  ASSUME TapInv, NEW valid \in BOOLEAN, PushBegin(valid)
  PROVE  TapInv'
<1> DEFINE b == [number |-> source + 1, whole |-> FALSE]
<1>1. /\ pusher.pc = "idle" /\ source' = source + 1 /\ readIndex' = readIndex
      /\ writeIndex' = writeIndex /\ stopped' = stopped /\ drain' = drain
  BY DEF PushBegin
<1>2. /\ TapTyped /\ WriterInside /\ BlocksAscend /\ BlocksFollow /\ DrainTells
  BY DEF TapInv
<1>3. /\ drain.last \in Nat /\ Ahead \in Nat /\ source \in Nat /\ overruns \in Nat
      /\ TapSlots \in Nat \ {0} /\ Ahead <= TapSlots /\ Settled = source
      /\ \A k \in 0..Ahead - 1 : Waiting[k].number \in Nat
  BY <1>1, <1>2, TapFields DEF WriterInside, Settled
<1>4. CASE ~valid
  <2>1. failed' = TRUE /\ ring' = ring /\ overruns' = overruns /\ pusher' = pusher
    BY <1>4 DEF PushBegin
  <2>2. Ahead' = Ahead /\ Waiting' = Waiting /\ Settled' = source + 1
    BY <1>1, <2>1, WaitingStays DEF Settled
  <2>3. TapTyped'
    BY <1>1, <1>2, <2>1 DEF TapTyped
  <2>4. WriterInside'
    BY <1>1, <1>3, <2>1, <2>2 DEF WriterInside
  <2>5. BlocksAscend'
    BY <1>1, <1>2, <1>3, <2>2 DEF BlocksAscend
  <2>6. BlocksFollow' /\ DrainTells'
    BY <1>1, <1>2, <2>1, <2>2 DEF BlocksFollow, DrainTells
  <2> QED
    BY <2>3, <2>4, <2>5, <2>6 DEF TapInv
<1>5. CASE valid /\ PushFull(readIndex)
  <2>1. overruns' = overruns + 1 /\ ring' = ring /\ failed' = failed /\ pusher' = pusher
    BY <1>5 DEF PushBegin
  <2>2. Ahead' = Ahead /\ Waiting' = Waiting /\ Settled' = source + 1
    BY <1>1, <2>1, WaitingStays DEF Settled
  <2>3. Ahead = TapSlots /\ Ahead > 0 /\ 0 \in 0..Ahead - 1
    <3>1. Ahead >= TapSlots
      BY <1>2, <1>5, AheadIs DEF PushFull
    <3> QED
      BY <1>3, <3>1
  <2>4. TapTyped'
    BY <1>1, <1>2, <2>1 DEF TapTyped
  <2>5. WriterInside'
    BY <1>1, <1>3, <2>1, <2>2 DEF WriterInside
  <2>6. BlocksAscend'
    BY <1>1, <1>2, <1>3, <2>2 DEF BlocksAscend
  <2>7. BlocksFollow'
    BY <1>3, <2>1 DEF BlocksFollow
  <2>8. ~failed /\ drain.pc = "peek" /\ ~drain.gap => Waiting[0].number = drain.last + 1
    <3>1. CASE overruns = 0
      BY <1>2, <1>3, <2>3, <3>1 DEF BlocksFollow
    <3>2. CASE overruns # 0
      BY <1>2, <1>3, <3>2 DEF DrainTells
    <3> QED
      BY <3>1, <3>2
  <2>9. DrainTells'
    BY <1>1, <1>2, <2>1, <2>2, <2>3, <2>8 DEF DrainTells
  <2> QED
    BY <2>4, <2>5, <2>6, <2>7, <2>9 DEF TapInv
<1>6. CASE valid /\ ~PushFull(readIndex)
  <2>1. /\ pusher' = [pc |-> "fill", write |-> writeIndex] /\ overruns' = overruns /\ failed' = failed
        /\ ring' = [ring EXCEPT ![Cell(writeIndex)] = b]
    BY <1>1, <1>6 DEF PushBegin, Cell
  <2>2. Ahead < TapSlots
    <3>1. ~(Ahead >= TapSlots)
      BY <1>2, <1>6, AheadIs DEF PushFull
    <3> QED
      BY <1>3, <3>1
  <2>3. b \in Blocks /\ b.number = source + 1
    BY <1>3 DEF Blocks
  <2>4. pusher' \in Pushers /\ pusher'.pc = "fill" /\ pusher'.write = writeIndex
    BY <1>2, <2>1, TapAssumption DEF TapTyped, Pushers
  <2> HIDE DEF b
  <2>5. /\ ring' \in [0..TapSlots - 1 -> Blocks] /\ ring'[Cell(writeIndex)] = b
        /\ \A k \in 0..Ahead - 1 : ring'[Cell(readIndex + k)] = Waiting[k]
    BY <1>1, <1>2, <2>1, <2>2, <2>3, WaitingUntouched
  <2>6. Ahead' = Ahead /\ Settled' = Settled
    BY <1>1, <1>3, <2>4 DEF Ahead, Settled
  <2>7. Waiting' = Waiting
    <3>1. Waiting' = [k \in 0..Ahead - 1 |-> ring'[Cell(readIndex + k)]]
      BY <1>1, <2>6 DEF Waiting, Cell
    <3>2. Waiting = [k \in 0..Ahead - 1 |-> Waiting[k]]
      BY DEF Waiting
    <3> QED
      BY <2>5, <3>1, <3>2
  <2>8. TapTyped'
    BY <1>1, <1>2, <1>3, <2>1, <2>4, <2>5 DEF TapTyped
  <2>9. WriterInside'
    <3>1. Cell(writeIndex)' = Cell(writeIndex)
      BY <1>1 DEF Cell
    <3> QED
      BY <1>1, <1>3, <2>2, <2>3, <2>4, <2>5, <2>6, <3>1 DEF WriterInside
  <2>10. BlocksAscend' /\ BlocksFollow' /\ DrainTells'
    BY <1>1, <1>2, <2>1, <2>6, <2>7 DEF BlocksAscend, BlocksFollow, DrainTells
  <2> QED
    BY <2>8, <2>9, <2>10 DEF TapInv
<1> QED
  BY <1>4, <1>5, <1>6

\* PLANKTapPush's end: the block joins the ones waiting, or the tap has failed.
LEMMA TapPushEnds ==
  ASSUME TapInv, NEW finite \in BOOLEAN, PushEnd(finite)
  PROVE  TapInv'
<1>1. /\ pusher.pc = "fill" /\ pusher' = [pusher EXCEPT !.pc = "idle"] /\ readIndex' = readIndex
      /\ overruns' = overruns /\ stopped' = stopped /\ source' = source /\ drain' = drain
  BY DEF PushEnd
<1>2. TapTyped /\ WriterInside /\ BlocksAscend /\ BlocksFollow /\ DrainTells
  BY DEF TapInv
<1>3. /\ drain.last \in Nat /\ Ahead \in Nat /\ source \in Nat /\ overruns \in Nat
      /\ TapSlots \in Nat \ {0} /\ Settled = source - 1
      /\ \A k \in 0..Ahead - 1 : Waiting[k].number \in Nat
  BY <1>1, <1>2, TapFields DEF Settled
<1>4. /\ pusher.write = writeIndex /\ Ahead < TapSlots
      /\ source > 0 /\ ring[Cell(writeIndex)].number = source
  BY <1>1, <1>2 DEF WriterInside
<1>5. pusher' \in Pushers /\ pusher'.pc = "idle" /\ Settled' = source
  BY <1>1, <1>2 DEF TapTyped, Pushers, Settled
<1>6. CASE ~finite
  <2>1. failed' = TRUE /\ ring' = ring /\ writeIndex' = writeIndex
    BY <1>6 DEF PushEnd
  <2>2. Ahead' = Ahead /\ Waiting' = Waiting
    BY <1>1, <2>1, WaitingStays
  <2>3. TapTyped'
    BY <1>1, <1>2, <1>5, <2>1 DEF TapTyped
  <2>4. WriterInside'
    BY <1>3, <1>4, <1>5, <2>2 DEF WriterInside
  <2>5. BlocksAscend'
    BY <1>1, <1>2, <1>3, <1>5, <2>2 DEF BlocksAscend
  <2>6. BlocksFollow' /\ DrainTells'
    BY <1>1, <1>2, <2>1, <2>2 DEF BlocksFollow, DrainTells
  <2> QED
    BY <2>3, <2>4, <2>5, <2>6 DEF TapInv
<1>7. CASE finite
  <2> DEFINE c == Cell(writeIndex)
             b == [ring[c] EXCEPT !.whole = TRUE]
  <2>1. /\ writeIndex' = (writeIndex + 1) % IndexRange /\ failed' = failed
        /\ ring' = [ring EXCEPT ![c] = b]
    BY <1>4, <1>7 DEF PushEnd, Cell
  <2>2. c \in 0..TapSlots - 1 /\ ring[c] \in Blocks
    <3>1. writeIndex \in Nat /\ ring \in [0..TapSlots - 1 -> Blocks]
      BY <1>2, TapAssumption DEF TapTyped
    <3> QED
      BY <3>1, CellIn
  <2>3. b \in Blocks /\ b.number = source /\ b.whole
    BY <1>4, <2>2 DEF Blocks
  <2> HIDE DEF b
  <2>4. /\ writeIndex' \in 0..IndexRange - 1 /\ Ahead' = Ahead + 1
        /\ \A k \in 0..Ahead - 1 : Waiting'[k] = Waiting[k]
        /\ Waiting'[Ahead] = b
    BY <1>1, <1>2, <1>4, <2>1, <2>3, WaitingGrows
  <2>5. ring' \in [0..TapSlots - 1 -> Blocks]
    BY <1>1, <1>2, <1>4, <2>1, <2>3, WaitingUntouched
  <2>6. \A k \in 0..Ahead' - 1 : k \in 0..Ahead - 1 \/ k = Ahead
    BY <1>3, <2>4
  <2>7. TapTyped'
    BY <1>1, <1>2, <1>5, <2>1, <2>4, <2>5 DEF TapTyped
  <2>8. WriterInside'
    BY <1>3, <1>4, <1>5, <2>4 DEF WriterInside
  <2>9. BlocksAscend'
    <3>1. drain.last <= source
      BY <1>2, <1>3 DEF BlocksAscend
    <3>2. ASSUME NEW k \in 0..Ahead' - 1
          PROVE  /\ Waiting'[k].whole /\ Waiting'[k].number <= source
                 /\ k > 0 \/ drain.pc # "pop" => drain.last < Waiting'[k].number
      <4>1. CASE k = Ahead
        BY <1>2, <1>3, <2>3, <2>4, <4>1 DEF BlocksAscend
      <4>2. CASE k \in 0..Ahead - 1
        BY <1>2, <1>3, <2>4, <4>2 DEF BlocksAscend
      <4> QED
        BY <2>6, <4>1, <4>2
    <3>3. ASSUME NEW k \in 0..Ahead' - 1, NEW m \in 0..Ahead' - 1, k < m
          PROVE  Waiting'[k].number < Waiting'[m].number
      <4>1. k \in 0..Ahead - 1
        BY <1>3, <2>4, <3>3
      <4>2. CASE m = Ahead
        <5>1. Waiting[k].number <= source - 1
          BY <1>2, <1>3, <4>1 DEF BlocksAscend
        <5> QED
          BY <1>3, <2>3, <2>4, <4>1, <4>2, <5>1
      <4>3. CASE m \in 0..Ahead - 1
        BY <1>2, <2>4, <3>3, <4>1, <4>3 DEF BlocksAscend
      <4> QED
        BY <2>6, <4>2, <4>3
    <3> QED
      BY <1>1, <1>5, <3>1, <3>2, <3>3 DEF BlocksAscend
  <2>10. BlocksFollow'
    <3> SUFFICES ASSUME ~failed, overruns = 0, drain.pc # "drop"
                 PROVE  /\ \A k \in 0..Ahead' - 1 : Waiting'[k].number = source - Ahead' + 1 + k
                        /\ drain.pc # "pop" /\ ~drain.gap => drain.last = source - Ahead'
      BY <1>1, <1>5, <2>1 DEF BlocksFollow
    <3>1. ASSUME NEW k \in 0..Ahead' - 1 PROVE Waiting'[k].number = source - Ahead' + 1 + k
      <4>1. CASE k = Ahead
        BY <1>3, <2>3, <2>4, <4>1
      <4>2. CASE k \in 0..Ahead - 1
        BY <1>2, <1>3, <2>4, <4>2 DEF BlocksFollow
      <4> QED
        BY <2>6, <4>1, <4>2
    <3>2. drain.pc # "pop" /\ ~drain.gap => drain.last = source - Ahead'
      BY <1>2, <1>3, <2>4 DEF BlocksFollow
    <3> QED
      BY <3>1, <3>2
  <2>11. DrainTells'
    <3>1. Ahead > 0 => Ahead' > 0 /\ 0 \in 0..Ahead - 1
      BY <1>3, <2>4
    <3> QED
      BY <1>1, <1>2, <2>1, <2>4, <3>1 DEF DrainTells
  <2> QED
    BY <2>7, <2>8, <2>9, <2>10, <2>11 DEF TapInv
<1> QED
  BY <1>6, <1>7

\* The drain loop where it only moves on: the start, the count, an empty ring, the stop.
LEMMA TapDrainMoves ==
  ASSUME TapInv, DrainStart \/ Discard \/ PeekEmpty \/ StopTap
  PROVE  TapInv' /\ drain'.last = drain.last
<1>1. /\ ring' = ring /\ readIndex' = readIndex /\ writeIndex' = writeIndex /\ failed' = failed
      /\ source' = source /\ pusher' = pusher
  BY DEF DrainStart, Discard, PeekEmpty, StopTap
<1>2. TapTyped /\ WriterInside /\ BlocksAscend /\ BlocksFollow /\ DrainTells
  BY DEF TapInv
<1>3. /\ drain.pc \in {"idle", "discard", "drop", "peek", "pop"} /\ drain.last \in Nat
      /\ drain.gap \in BOOLEAN /\ overruns \in Nat /\ drain \in Drains /\ stopped \in BOOLEAN
  BY <1>2, TapFields DEF TapTyped
<1>4. Ahead' = Ahead /\ Waiting' = Waiting /\ Settled' = Settled
  BY <1>1, WaitingStays DEF Settled
<1>5. WriterInside'
  <2>1. Cell(writeIndex)' = Cell(writeIndex)
    BY <1>1 DEF Cell
  <2> QED
    BY <1>1, <1>2, <1>4, <2>1 DEF WriterInside
<1> DEFINE Moved ==
      /\ drain' \in Drains /\ drain'.last = drain.last /\ drain'.pc # "pop"
      /\ drain.pc # "pop" /\ overruns' \in Nat /\ stopped' \in BOOLEAN
<1>6. Moved => TapTyped' /\ BlocksAscend'
  BY <1>1, <1>2, <1>4 DEF TapTyped, BlocksAscend
<1>7. CASE DrainStart \/ PeekEmpty
  <2>1. /\ drain.pc # "pop" /\ drain.pc # "drop" /\ overruns' = overruns /\ stopped' = stopped
        /\ \/ drain' = [drain EXCEPT !.pc = "discard", !.handled = 0]
           \/ drain' = [drain EXCEPT !.pc = "idle"]
    BY <1>7 DEF DrainStart, PeekEmpty
  <2>2. /\ drain' \in Drains /\ drain'.last = drain.last /\ drain'.gap = drain.gap
        /\ drain'.pc \in {"idle", "discard"}
    <3>1. CASE drain' = [drain EXCEPT !.pc = "discard", !.handled = 0]
      BY ONLY <1>3, <3>1 DEF Drains
    <3>2. CASE drain' = [drain EXCEPT !.pc = "idle"]
      BY ONLY <1>3, <3>2 DEF Drains
    <3> QED
      BY <2>1, <3>1, <3>2
  <2>3. Moved
    BY <1>3, <2>1, <2>2
  <2>4. BlocksFollow' /\ DrainTells'
    BY <1>1, <1>2, <1>4, <2>1, <2>2 DEF BlocksFollow, DrainTells
  <2> QED
    BY <1>5, <1>6, <2>3, <2>4 DEF TapInv
<1>8. CASE Discard
  <2> DEFINE pc == IF overruns > 0 THEN "drop" ELSE "peek"
             gap == drain.gap \/ overruns > 0
  <2>1. /\ drain.pc = "discard" /\ overruns' = 0 /\ stopped' = stopped
        /\ drain' = [drain EXCEPT !.pc = pc, !.gap = gap]
    BY <1>8 DEF Discard
  <2>2. /\ pc \in {"drop", "peek"} /\ gap \in BOOLEAN /\ (pc = "drop" <=> overruns # 0)
        /\ (overruns # 0 => gap) /\ (overruns = 0 => (gap <=> drain.gap))
    BY <1>3
  <2> HIDE DEF pc, gap
  <2>3. drain' \in Drains /\ drain'.last = drain.last /\ drain'.gap = gap /\ drain'.pc = pc
    BY <1>3, <2>1, <2>2 DEF Drains
  <2>4. Moved
    BY <1>3, <2>1, <2>2, <2>3
  <2>5. BlocksFollow'
    BY <1>1, <1>2, <1>4, <2>1, <2>2, <2>3 DEF BlocksFollow
  <2>6. DrainTells'
    BY <2>1, <2>2, <2>3 DEF DrainTells
  <2> QED
    BY <1>5, <1>6, <2>4, <2>5, <2>6 DEF TapInv
<1>9. CASE StopTap
  <2>1. drain.pc = "idle" /\ stopped' = TRUE /\ overruns' = overruns /\ drain' = drain
    BY <1>9 DEF StopTap
  <2>2. BlocksFollow' /\ DrainTells'
    BY <1>1, <1>2, <1>4, <2>1 DEF BlocksFollow, DrainTells
  <2>3. Moved
    BY <1>3, <2>1
  <2> QED
    BY <1>5, <1>6, <2>2, <2>3 DEF TapInv
<1> QED
  BY <1>7, <1>8, <1>9

\* PLANKTapDiscardOverrun gives up the backlog.
LEMMA TapDrops ==
  ASSUME TapInv, DropBacklog
  PROVE  TapInv' /\ drain'.last = drain.last
<1>1. /\ drain.pc = "drop" /\ readIndex' = writeIndex /\ drain' = [drain EXCEPT !.pc = "peek"]
      /\ ring' = ring /\ writeIndex' = writeIndex /\ overruns' = overruns /\ failed' = failed
      /\ stopped' = stopped /\ source' = source /\ pusher' = pusher
  BY DEF DropBacklog
<1>2. TapTyped /\ WriterInside /\ BlocksAscend /\ BlocksFollow /\ DrainTells
  BY DEF TapInv
<1>3. drain.gap /\ drain \in Drains /\ writeIndex \in 0..IndexRange - 1
  BY <1>1, <1>2 DEF DrainTells, TapTyped
<1>4. /\ drain' \in Drains /\ drain'.last = drain.last /\ drain'.gap = drain.gap
      /\ drain'.pc = "peek"
  BY <1>1, <1>3 DEF Drains
<1>5. TapTyped'
  BY <1>1, <1>2, <1>3, <1>4 DEF TapTyped
<1>6. Ahead' = 0 /\ Settled' = Settled /\ TapSlots \in Nat \ {0}
  BY <1>1, <1>3, TapAssumption DEF Ahead, Settled
<1>7. WriterInside'
  <2>1. Cell(writeIndex)' = Cell(writeIndex)
    BY <1>1 DEF Cell
  <2> QED
    BY <1>1, <1>2, <1>6, <2>1 DEF WriterInside
<1>8. BlocksAscend'
  BY <1>2, <1>4, <1>6 DEF BlocksAscend
<1>9. BlocksFollow' /\ DrainTells'
  BY <1>3, <1>4, <1>6 DEF BlocksFollow, DrainTells
<1> QED
  BY <1>4, <1>5, <1>7, <1>8, <1>9 DEF TapInv

\* PLANKTapPeek: the encoder gets a whole block, later than the last one and next to it
\* unless it was told of a gap or the tap has failed.
LEMMA TapConsumes ==
  ASSUME TapInv, Consume
  PROVE  /\ TapInv' /\ ring[readIndex % TapSlots].whole /\ drain'.last > drain.last
         /\ drain.gap \/ failed \/ drain'.last = drain.last + 1
<1> DEFINE first == Waiting[0]
<1>1. /\ drain.pc = "peek" /\ readIndex # writeIndex
      /\ drain' = [drain EXCEPT !.pc = "pop", !.last = ring[readIndex % TapSlots].number,
                                !.gap = FALSE, !.handled = drain.handled + 1]
      /\ ring' = ring /\ readIndex' = readIndex /\ writeIndex' = writeIndex /\ overruns' = overruns
      /\ failed' = failed /\ stopped' = stopped /\ source' = source /\ pusher' = pusher
  BY DEF Consume
<1>2. TapTyped /\ WriterInside /\ BlocksAscend /\ BlocksFollow /\ DrainTells
  BY DEF TapInv
<1>3. /\ drain.last \in Nat /\ Ahead \in Nat /\ source \in Nat /\ overruns \in Nat
      /\ drain.handled \in Nat /\ drain \in Drains /\ drain.gap \in BOOLEAN
      /\ \A k \in 0..Ahead - 1 : Waiting[k].number \in Nat
  BY <1>2, TapFields DEF TapTyped
<1>4. Ahead > 0 /\ 0 \in 0..Ahead - 1
  BY <1>1, <1>2, <1>3, AheadIs
<1>5. first = ring[readIndex % TapSlots]
  <2>1. readIndex + 0 = readIndex
    BY <1>2, TapAssumption DEF TapTyped
  <2> QED
    BY <1>4, <2>1 DEF Waiting, Cell
<1>6. first.whole /\ first.number \in Nat /\ first.number <= Settled /\ drain.last < first.number
  BY <1>1, <1>2, <1>3, <1>4 DEF BlocksAscend
<1>7. drain.gap \/ failed \/ first.number = drain.last + 1
  <2>1. CASE overruns = 0
    <3>1. Settled \in Int
      BY <1>3 DEF Settled
    <3> QED
      BY <1>1, <1>2, <1>3, <1>4, <2>1, <3>1 DEF BlocksFollow
  <2>2. CASE overruns # 0
    BY <1>1, <1>2, <1>3, <2>2 DEF DrainTells
  <2> QED
    BY <2>1, <2>2
<1>8. drain' \in Drains /\ drain'.pc = "pop" /\ drain'.last = first.number /\ drain'.gap = FALSE
  <2> DEFINE n == first.number
             h == drain.handled + 1
  <2>1. n \in Nat /\ h \in Nat
    BY <1>3, <1>6
  <2>2. drain' = [drain EXCEPT !.pc = "pop", !.last = n, !.gap = FALSE, !.handled = h]
    BY <1>1, <1>5
  <2> HIDE DEF n, h
  <2>3. drain' \in Drains /\ drain'.pc = "pop" /\ drain'.last = n /\ drain'.gap = FALSE
    BY <1>3, <2>1, <2>2 DEF Drains
  <2> QED
    BY <2>3 DEF n
<1>9. Ahead' = Ahead /\ Waiting' = Waiting /\ Settled' = Settled
  BY <1>1, WaitingStays DEF Settled
<1>10. TapTyped'
  BY <1>1, <1>2, <1>8 DEF TapTyped
<1>11. WriterInside'
  <2>1. Cell(writeIndex)' = Cell(writeIndex)
    BY <1>1 DEF Cell
  <2> QED
    BY <1>1, <1>2, <1>9, <2>1 DEF WriterInside
<1> HIDE DEF first
<1>12. BlocksAscend'
  <2>1. \A k \in 0..Ahead - 1 : k > 0 => first.number < Waiting[k].number
    BY <1>2, <1>4 DEF BlocksAscend, first
  <2> QED
    BY <1>2, <1>6, <1>8, <1>9, <2>1 DEF BlocksAscend
<1>13. BlocksFollow'
  BY <1>1, <1>2, <1>8, <1>9 DEF BlocksFollow
<1>14. DrainTells'
  BY <1>4, <1>8, <1>9 DEF DrainTells, first
<1> QED
  BY <1>5, <1>6, <1>7, <1>8, <1>10, <1>11, <1>12, <1>13, <1>14 DEF TapInv

\* PLANKTapPop.
LEMMA TapPops ==
  ASSUME TapInv, Pop
  PROVE  TapInv' /\ drain'.last = drain.last
<1> DEFINE pc == IF drain.handled < TapSlots THEN "discard" ELSE "idle"
<1>1. /\ drain.pc = "pop" /\ readIndex' = (readIndex + 1) % IndexRange
      /\ drain' = [drain EXCEPT !.pc = pc]
      /\ ring' = ring /\ writeIndex' = writeIndex /\ overruns' = overruns /\ failed' = failed
      /\ stopped' = stopped /\ source' = source /\ pusher' = pusher
  BY DEF Pop
<1>2. pc \in {"discard", "idle"}
  OBVIOUS
<1> HIDE DEF pc
<1>3. TapTyped /\ WriterInside /\ BlocksAscend /\ BlocksFollow /\ DrainTells
  BY DEF TapInv
<1>4. /\ drain.last \in Nat /\ Ahead \in Nat /\ source \in Nat /\ drain \in Drains
      /\ TapSlots \in Nat \ {0}
      /\ \A k \in 0..Ahead - 1 : Waiting[k].number \in Nat
  BY <1>3, TapFields DEF TapTyped
<1>5. /\ drain' \in Drains /\ drain'.last = drain.last /\ drain'.gap = drain.gap /\ drain'.pc = pc
  BY <1>1, <1>2, <1>4 DEF Drains
<1>6. Ahead > 0 /\ Waiting[0].number = drain.last /\ ~drain.gap /\ 0 \in 0..Ahead - 1
  BY <1>1, <1>3, <1>4 DEF DrainTells
<1>7. /\ readIndex' \in 0..IndexRange - 1 /\ Ahead' = Ahead - 1
      /\ \A k \in 0..Ahead' - 1 : Waiting'[k] = Waiting[k + 1]
  BY <1>1, <1>3, <1>6, WaitingShrinks
<1>8. Settled' = Settled /\ Settled \in Int /\ Ahead' \in Nat
  BY <1>1, <1>4, <1>6, <1>7 DEF Settled
<1>9. \A k \in 0..Ahead' - 1 : k + 1 \in 0..Ahead - 1 /\ k + 1 > 0 /\ k \in Nat
  BY <1>4, <1>7
<1>10. TapTyped'
  BY <1>1, <1>3, <1>5, <1>7 DEF TapTyped
<1>11. WriterInside'
  <2>1. Cell(writeIndex)' = Cell(writeIndex)
    BY <1>1 DEF Cell
  <2> QED
    BY <1>1, <1>3, <1>4, <1>7, <2>1 DEF WriterInside
<1>12. BlocksAscend'
  <2>1. ASSUME NEW k \in 0..Ahead' - 1
        PROVE  /\ Waiting'[k].whole /\ Waiting'[k].number <= Settled
               /\ drain.last < Waiting'[k].number
    BY <1>3, <1>7, <1>9 DEF BlocksAscend
  <2>2. ASSUME NEW k \in 0..Ahead' - 1, NEW m \in 0..Ahead' - 1, k < m
        PROVE  Waiting'[k].number < Waiting'[m].number
    <3>1. k + 1 < m + 1
      BY <1>9, <2>2
    <3> QED
      BY <1>3, <1>7, <1>9, <3>1 DEF BlocksAscend
  <2>3. drain.last <= Settled
    BY <1>3 DEF BlocksAscend
  <2> QED
    BY <1>5, <1>8, <2>1, <2>2, <2>3 DEF BlocksAscend
<1>13. BlocksFollow'
  <2> SUFFICES ASSUME ~failed, overruns = 0
               PROVE  /\ \A k \in 0..Ahead' - 1 : Waiting'[k].number = Settled - Ahead' + 1 + k
                      /\ drain.last = Settled - Ahead'
    BY <1>1, <1>5, <1>8 DEF BlocksFollow
  <2>1. \A k \in 0..Ahead - 1 : Waiting[k].number = Settled - Ahead + 1 + k
    BY <1>1, <1>3 DEF BlocksFollow
  <2>2. ASSUME NEW k \in 0..Ahead' - 1 PROVE Waiting'[k].number = Settled - Ahead' + 1 + k
    BY <1>4, <1>7, <1>8, <1>9, <2>1
  <2>3. drain.last = Settled - Ahead'
    BY <1>4, <1>6, <1>7, <1>8, <2>1
  <2> QED
    BY <2>2, <2>3
<1>14. DrainTells'
  BY <1>2, <1>5 DEF DrainTells
<1> QED
  BY <1>5, <1>10, <1>11, <1>12, <1>13, <1>14 DEF TapInv

\* Every step keeps the invariant, and a block the encoder gets is whole and in order.
LEMMA TapStep ==
  ASSUME TapInv, [TapNext]_tapVars
  PROVE  /\ TapInv'
         /\ drain'.last # drain.last =>
              /\ ring[readIndex % TapSlots].whole
              /\ drain'.last > drain.last
              /\ drain.gap \/ failed \/ drain'.last = drain.last + 1
<1>1. CASE UNCHANGED tapVars
  <2>1. /\ ring' = ring /\ readIndex' = readIndex /\ writeIndex' = writeIndex /\ overruns' = overruns
        /\ failed' = failed /\ stopped' = stopped /\ source' = source /\ pusher' = pusher
        /\ drain' = drain
    BY <1>1 DEF tapVars
  <2>2. /\ Ahead' = Ahead /\ Waiting' = Waiting /\ Settled' = Settled
        /\ Cell(writeIndex)' = Cell(writeIndex)
    BY <2>1, WaitingStays DEF Settled, Cell
  <2> QED
    BY <2>1, <2>2 DEF TapInv, TapTyped, WriterInside, BlocksAscend, BlocksFollow, DrainTells
<1>2. CASE \E b \in BOOLEAN : PushBegin(b) \/ PushEnd(b)
  <2>1. drain' = drain
    BY <1>2 DEF PushBegin, PushEnd
  <2> QED
    BY <1>2, <2>1, TapPushBegins, TapPushEnds
<1>3. CASE DrainStart \/ Discard \/ PeekEmpty \/ StopTap
  BY <1>3, TapDrainMoves
<1>4. CASE DropBacklog
  BY <1>4, TapDrops
<1>5. CASE Consume
  BY <1>5, TapConsumes
<1>6. CASE Pop
  BY <1>6, TapPops
<1> QED
  BY <1>1, <1>2, <1>3, <1>4, <1>5, <1>6 DEF TapNext

\* No overrun passes unnoticed: the encoder receives whole blocks, and one that does not
\* follow the last comes with a gap or from a failed tap, whatever the indices wrap to.
THEOREM TapDelivers == TapSpec => TapContiguous
<1>1. TapInv /\ [TapNext]_tapVars =>
        [drain'.last # drain.last =>
           /\ ring[readIndex % TapSlots].whole
           /\ drain'.last > drain.last
           /\ drain.gap \/ failed \/ drain'.last = drain.last + 1]_tapVars
  BY TapStep
<1>2. TapInv /\ [TapNext]_tapVars => TapInv'
  BY TapStep
<1> QED
  BY <1>1, <1>2, TapStart, PTL DEF TapSpec, TapContiguous

\* The three side by side: what a real-time thread reads is whole, in order and current.
THEOREM BuffersSound == MicBufferSpec /\ TapSpec /\ CameraLinkSpec => SharedBuffersSound
  BY MicRead, TapDelivers, CameraRecords DEF SharedBuffersSound


(***************************************************************************)
(* MicrophoneLink                                                          *)
(***************************************************************************)

Holders == Leases \cup {0}
Cells == [lease : Holders, seed : Nat, mute : Nat]

MicLinkTyped ==
  /\ micNow \in Nat /\ hal \in [running : BOOLEAN, seed : Nat]
  /\ priv \in [gen : Nat, cell : Cells] /\ gate \in [lease : Holders, deadline : Nat]
  /\ ctl \in [pc : {"idle", "attach", "drop", "copy"}, lease : Holders, until : Nat,
              copiedSeed : Nat, copiedGen : Nat, peer : BOOLEAN]
  /\ region \in [gen : Nat, cell : Cells, seed : Nat, running : BOOLEAN, producerSeed : Nat,
                 deadline : Nat]
  /\ prod \in [pc : {"none", "idle", "reset", "seed", "write", "deadline", "stopped"},
               seed : Nat, clock : Nat, mute : Nat]
  /\ unused \subseteq Leases
  /\ io \in [pc : {"idle", "deadline", "gen", "cell", "again", "lease", "gate"}, lease : Holders,
             gen : Nat, cell : Cells]
  /\ muted \in Nat

\* The gate is open for the lease in force only, and never past the broker's deadline.
GateWithin ==
  /\ gate.deadline <= ctl.until /\ ctl.until <= micNow + BrokerTicks
  /\ gate.lease = IF ctl.pc \in {"attach", "drop"} THEN 0 ELSE ctl.lease
  /\ gate.lease = 0 => gate.deadline = 0
  /\ ctl.pc \in {"attach", "copy"} => ctl.lease # 0
  /\ ctl.lease \notin unused

\* The producer's clock follows the device's; it announces a clock once it has emptied the
\* region, and a copy is only made for a producer that has announced the one that runs.
ProducerFollows ==
  /\ prod.seed <= prod.clock /\ prod.clock <= region.seed /\ region.seed <= hal.seed
  /\ IF prod.pc = "seed" THEN region.producerSeed <= prod.clock /\ prod.seed = prod.clock
     ELSE region.producerSeed = prod.seed
  /\ ctl.lease = 0 \/ ctl.pc = "attach" => prod.pc = "none"
  /\ ctl.pc = "copy" => prod.seed = hal.seed

\* What the region holds was made by the producer of the lease, for its clock and epoch.
RegionCurrent ==
  region.cell # Silent =>
    /\ region.cell.lease = ctl.lease /\ region.cell.seed = prod.seed /\ region.cell.mute = prod.mute
    /\ prod.pc # "seed"

\* What the private history holds is of the lease and the clock in force, and of no epoch
\* before the last tick's; a generation that was copied is of the epoch the tick saw.
PrivateCurrent ==
  /\ priv.cell # Silent =>
       priv.cell.lease = ctl.lease /\ priv.cell.seed = hal.seed /\ priv.cell.mute >= muted
  /\ muted <= prod.mute /\ ctl.copiedGen <= region.gen
  /\ ctl.copiedGen = region.gen => muted = prod.mute

\* A read in progress: its lease has been handed out and the clock cannot restart under it.
ReaderCurrent ==
  /\ io.pc # "idle" => hal.running /\ io.lease # 0 /\ io.lease \notin unused
  /\ io.pc \in {"again", "lease", "gate"} /\ io.cell # Silent =>
       /\ io.cell.seed = hal.seed
       /\ ctl.lease = io.lease => io.cell.lease = ctl.lease
       /\ io.pc = "gate" => io.cell.lease = io.lease

MicLinkInv ==
  /\ MicLinkTyped /\ GateWithin /\ ProducerFollows /\ RegionCurrent /\ PrivateCurrent
  /\ ReaderCurrent /\ heard

LEMMA MicLinkConstants ==
  /\ 0 \notin Leases /\ Leases \subseteq Nat /\ BrokerTicks \in Nat /\ InputTicks \in Nat
  /\ Silent \in Cells /\ Silent.lease = 0 /\ 0 \in Holders /\ Leases \subseteq Holders
  /\ FreshRegion.cell = Silent /\ FreshRegion.seed = 0 /\ FreshRegion.producerSeed = 0
  /\ FreshRegion.gen = 1
  /\ FreshRegion \in [gen : Nat, cell : Cells, seed : Nat, running : BOOLEAN, producerSeed : Nat,
                      deadline : Nat]
<1>1. 0 \notin Leases /\ Leases \subseteq Nat /\ BrokerTicks \in Nat /\ InputTicks \in Nat
  BY MicLinkAssumption
<1>2. Silent \in Cells /\ Silent.lease = 0 /\ 0 \in Holders /\ Leases \subseteq Holders
  BY DEF Silent, Cells, Holders
<1>3. FreshRegion.cell = Silent /\ FreshRegion.seed = 0 /\ FreshRegion.producerSeed = 0
      /\ FreshRegion.gen = 1
  BY DEF FreshRegion
<1>4. FreshRegion \in [gen : Nat, cell : Cells, seed : Nat, running : BOOLEAN, producerSeed : Nat,
                       deadline : Nat]
  BY <1>2 DEF FreshRegion
<1> QED
  BY <1>1, <1>2, <1>3, <1>4

LEMMA MicLinkInitHolds == MicLinkInit => MicLinkInv
<1> SUFFICES ASSUME MicLinkInit PROVE MicLinkInv
  OBVIOUS
<1>1. MicLinkTyped
  BY MicLinkConstants DEF MicLinkInit, MicLinkTyped, NoProducer, NoRead
<1>2. GateWithin
  BY MicLinkConstants DEF MicLinkInit, GateWithin
<1>3. ProducerFollows
  BY MicLinkConstants DEF MicLinkInit, ProducerFollows, NoProducer
<1>4. RegionCurrent /\ PrivateCurrent /\ ReaderCurrent /\ heard
  BY MicLinkConstants DEF MicLinkInit, RegionCurrent, PrivateCurrent, ReaderCurrent, NoProducer, NoRead
<1> QED
  BY <1>1, <1>2, <1>3, <1>4 DEF MicLinkInv

LEMMA ResetFields ==
  ASSUME MicLinkTyped, ResetPrivate
  PROVE  priv'.cell = Silent /\ priv' \in [gen : Nat, cell : Cells]
<1>1. priv.gen + 1 \in Nat
  BY DEF MicLinkTyped
<1>2. priv' = [gen |-> priv.gen + 1, cell |-> Silent] /\ Silent \in Cells
  BY MicLinkConstants DEF ResetPrivate
<1> QED
  BY ONLY <1>1, <1>2

\* StartIO and StopIO of the device, and time.
LEMMA DeviceKeepsLink ==
  ASSUME MicLinkInv, MicStartIO \/ MicStopIO \/ MicTime PROVE MicLinkInv'
<1> USE MicLinkConstants
<1>1. ASSUME MicStartIO PROVE MicLinkInv'
  <2>1. /\ hal'.running /\ hal'.seed = hal.seed + 1 /\ hal' \in [running : BOOLEAN, seed : Nat]
        /\ priv'.cell = Silent /\ priv' \in [gen : Nat, cell : Cells] /\ ctl.pc # "copy" /\ ~hal.running
        /\ UNCHANGED <<micNow, gate, ctl, region, prod, unused, io, muted, heard>>
    BY <1>1 DEF MicStartIO, ResetPrivate, MicLinkInv, MicLinkTyped
  <2>2. MicLinkTyped' /\ GateWithin' /\ RegionCurrent' /\ PrivateCurrent' /\ heard'
    BY <2>1 DEF MicLinkInv, MicLinkTyped, GateWithin, RegionCurrent, PrivateCurrent
  <2>3. ProducerFollows'
    BY <2>1 DEF MicLinkInv, MicLinkTyped, ProducerFollows
  <2>4. ReaderCurrent'
    BY <2>1 DEF MicLinkInv, ReaderCurrent
  <2> QED
    BY <2>2, <2>3, <2>4 DEF MicLinkInv
<1>2. ASSUME MicStopIO PROVE MicLinkInv'
  <2>1. /\ hal'.seed = hal.seed /\ hal' \in [running : BOOLEAN, seed : Nat] /\ io.pc = "idle"
        /\ UNCHANGED <<micNow, priv, gate, ctl, region, prod, unused, io, muted, heard>>
    BY <1>2 DEF MicStopIO, MicLinkInv, MicLinkTyped
  <2>2. MicLinkTyped' /\ GateWithin' /\ RegionCurrent' /\ PrivateCurrent' /\ heard'
    BY <2>1 DEF MicLinkInv, MicLinkTyped, GateWithin, RegionCurrent, PrivateCurrent
  <2>3. ProducerFollows' /\ ReaderCurrent'
    BY <2>1 DEF MicLinkInv, ProducerFollows, ReaderCurrent
  <2> QED
    BY <2>2, <2>3 DEF MicLinkInv
<1>3. ASSUME MicTime PROVE MicLinkInv'
  <2>1. /\ micNow' = micNow + 1
        /\ UNCHANGED <<hal, priv, gate, ctl, region, prod, unused, io, muted, heard>>
    BY <1>3 DEF MicTime
  <2>2. MicLinkTyped' /\ RegionCurrent' /\ PrivateCurrent' /\ heard' /\ ProducerFollows' /\ ReaderCurrent'
    BY <2>1 DEF MicLinkInv, MicLinkTyped, RegionCurrent, PrivateCurrent, ProducerFollows, ReaderCurrent
  <2>3. GateWithin'
    BY <2>1 DEF MicLinkInv, MicLinkTyped, GateWithin
  <2> QED
    BY <2>2, <2>3 DEF MicLinkInv
<1> QED
  BY <1>1, <1>2, <1>3

\* The control queue between ticks: attach, renew, drop and reconnect.
LEMMA ControlKeepsLink ==
  ASSUME MicLinkInv,
         \/ AttachAdopt \/ Renew \/ DropFinish \/ Reconnect
         \/ (\E b \in BOOLEAN : DropLink(b)) \/ (\E l \in Leases : AttachDrop(l))
  PROVE  MicLinkInv'
<1> USE MicLinkConstants
<1>1. ASSUME NEW l \in Leases, AttachDrop(l) PROVE MicLinkInv'
  <2>1. /\ ctl'.pc = "attach" /\ ctl'.lease = l /\ ctl'.until = 0 /\ ctl'.copiedGen = 0
        /\ ctl' \in [pc : {"idle", "attach", "drop", "copy"}, lease : Holders, until : Nat,
                     copiedSeed : Nat, copiedGen : Nat, peer : BOOLEAN]
    BY <1>1 DEF AttachDrop, Forgotten, MicLinkInv, MicLinkTyped
  <2>2. /\ gate'.lease = 0 /\ gate'.deadline = 0 /\ gate' \in [lease : Holders, deadline : Nat]
        /\ priv'.cell = Silent /\ priv' \in [gen : Nat, cell : Cells]
        /\ prod'.pc = "none" /\ prod'.seed = 0 /\ prod'.clock = 0 /\ prod'.mute = 0
        /\ prod' \in [pc : {"none", "idle", "reset", "seed", "write", "deadline", "stopped"},
                      seed : Nat, clock : Nat, mute : Nat]
    <3>1. gate'.lease = 0 /\ gate'.deadline = 0 /\ gate' \in [lease : Holders, deadline : Nat]
      BY <1>1 DEF AttachDrop, CloseGate
    <3>2. priv'.cell = Silent /\ priv' \in [gen : Nat, cell : Cells]
      BY <1>1, ResetFields DEF AttachDrop, MicLinkInv
    <3>3. /\ prod'.pc = "none" /\ prod'.seed = 0 /\ prod'.clock = 0 /\ prod'.mute = 0
          /\ prod' \in [pc : {"none", "idle", "reset", "seed", "write", "deadline", "stopped"},
                        seed : Nat, clock : Nat, mute : Nat]
      BY <1>1 DEF AttachDrop, NoProducer
    <3> QED
      BY <3>1, <3>2, <3>3
  <2>3. /\ region' = FreshRegion /\ muted' = 0 /\ unused' = unused \ {l} /\ l \in unused
        /\ UNCHANGED <<micNow, hal, io, heard>>
    BY <1>1 DEF AttachDrop, NextLease
  <2>4. MicLinkTyped'
    BY <2>1, <2>2, <2>3 DEF MicLinkInv, MicLinkTyped
  <2>5. GateWithin'
    BY <2>1, <2>2, <2>3 DEF MicLinkInv, MicLinkTyped, GateWithin
  <2>6. ProducerFollows' /\ RegionCurrent' /\ PrivateCurrent' /\ heard'
    BY <2>1, <2>2, <2>3
      DEF MicLinkInv, MicLinkTyped, ProducerFollows, RegionCurrent, PrivateCurrent
  <2>7. ReaderCurrent'
    BY <2>1, <2>3 DEF MicLinkInv, ReaderCurrent
  <2> QED
    BY <2>4, <2>5, <2>6, <2>7 DEF MicLinkInv
<1>2. ASSUME AttachAdopt PROVE MicLinkInv'
  <2>1. /\ ctl.pc = "attach" /\ ctl'.pc = "idle" /\ ctl'.lease = ctl.lease
        /\ ctl'.until = micNow + BrokerTicks /\ ctl'.copiedGen = ctl.copiedGen
        /\ ctl' \in [pc : {"idle", "attach", "drop", "copy"}, lease : Holders, until : Nat,
                     copiedSeed : Nat, copiedGen : Nat, peer : BOOLEAN]
    <3> DEFINE u == micNow + BrokerTicks
    <3>1. u \in Nat /\ ctl.pc = "attach" /\ ctl' = [ctl EXCEPT !.pc = "idle", !.until = u]
      BY <1>2 DEF AttachAdopt, MicLinkInv, MicLinkTyped
    <3> HIDE DEF u
    <3>2. ctl \in [pc : {"idle", "attach", "drop", "copy"}, lease : Holders, until : Nat,
                   copiedSeed : Nat, copiedGen : Nat, peer : BOOLEAN]
      BY DEF MicLinkInv, MicLinkTyped
    <3>3. /\ ctl'.pc = "idle" /\ ctl'.lease = ctl.lease /\ ctl'.until = u
          /\ ctl'.copiedGen = ctl.copiedGen
          /\ ctl' \in [pc : {"idle", "attach", "drop", "copy"}, lease : Holders, until : Nat,
                       copiedSeed : Nat, copiedGen : Nat, peer : BOOLEAN]
      BY ONLY <3>1, <3>2
    <3> QED
      BY <3>1, <3>3 DEF u
  <2>2. /\ gate'.lease = ctl.lease /\ gate'.deadline = gate.deadline
        /\ gate' \in [lease : Holders, deadline : Nat]
        /\ prod'.pc = "idle" /\ prod'.seed = prod.seed /\ prod'.clock = prod.clock
        /\ prod'.mute = prod.mute
        /\ prod' \in [pc : {"none", "idle", "reset", "seed", "write", "deadline", "stopped"},
                      seed : Nat, clock : Nat, mute : Nat]
        /\ UNCHANGED <<micNow, hal, priv, region, unused, io, muted, heard>>
    BY <1>2 DEF AttachAdopt, MicLinkInv, MicLinkTyped
  <2>3. MicLinkTyped'
    BY <2>1, <2>2 DEF MicLinkInv, MicLinkTyped
  <2>4. GateWithin'
    BY <2>1, <2>2 DEF MicLinkInv, MicLinkTyped, GateWithin
  <2>5. ctl.lease # 0 /\ prod.pc = "none"
    BY <2>1 DEF MicLinkInv, ProducerFollows, GateWithin
  <2>6. ProducerFollows' /\ RegionCurrent' /\ PrivateCurrent' /\ heard' /\ ReaderCurrent'
    BY <2>1, <2>2, <2>5
      DEF MicLinkInv, ProducerFollows, RegionCurrent, PrivateCurrent, ReaderCurrent
  <2> QED
    BY <2>3, <2>4, <2>6 DEF MicLinkInv
<1>3. ASSUME Renew PROVE MicLinkInv'
  <2>1. /\ ctl'.pc = ctl.pc /\ ctl'.lease = ctl.lease
        /\ ctl'.until = micNow + BrokerTicks /\ ctl'.copiedGen = ctl.copiedGen
        /\ ctl' \in [pc : {"idle", "attach", "drop", "copy"}, lease : Holders, until : Nat,
                     copiedSeed : Nat, copiedGen : Nat, peer : BOOLEAN]
        /\ UNCHANGED <<micNow, hal, priv, gate, region, prod, unused, io, muted, heard>>
    BY <1>3 DEF Renew, MicLinkInv, MicLinkTyped
  <2>2. MicLinkTyped' /\ ProducerFollows' /\ RegionCurrent' /\ PrivateCurrent' /\ heard' /\ ReaderCurrent'
    BY <2>1
      DEF MicLinkInv, MicLinkTyped, ProducerFollows, RegionCurrent, PrivateCurrent, ReaderCurrent
  <2>3. GateWithin'
    BY <2>1 DEF MicLinkInv, MicLinkTyped, GateWithin
  <2> QED
    BY <2>2, <2>3 DEF MicLinkInv
<1>4. ASSUME NEW b \in BOOLEAN, DropLink(b) PROVE MicLinkInv'
  <2>1. /\ ctl'.pc = "drop" /\ ctl'.lease = ctl.lease /\ ctl.pc = "idle"
        /\ ctl'.until = ctl.until /\ ctl'.copiedGen = ctl.copiedGen
        /\ ctl' \in [pc : {"idle", "attach", "drop", "copy"}, lease : Holders, until : Nat,
                     copiedSeed : Nat, copiedGen : Nat, peer : BOOLEAN]
        /\ gate'.lease = 0 /\ gate'.deadline = 0 /\ gate' \in [lease : Holders, deadline : Nat]
        /\ UNCHANGED <<micNow, hal, priv, region, prod, unused, io, muted, heard>>
    BY <1>4 DEF DropLink, CloseGate, MicLinkInv, MicLinkTyped
  <2>2. MicLinkTyped' /\ ProducerFollows' /\ RegionCurrent' /\ PrivateCurrent' /\ heard' /\ ReaderCurrent'
    BY <2>1
      DEF MicLinkInv, MicLinkTyped, ProducerFollows, RegionCurrent, PrivateCurrent, ReaderCurrent
  <2>3. GateWithin'
    BY <2>1 DEF MicLinkInv, MicLinkTyped, GateWithin
  <2> QED
    BY <2>2, <2>3 DEF MicLinkInv
<1>5. ASSUME DropFinish PROVE MicLinkInv'
  <2>1. /\ ctl.pc = "drop" /\ ctl'.pc = "idle" /\ ctl'.lease = 0 /\ ctl'.until = 0 /\ ctl'.copiedGen = 0
        /\ ctl' \in [pc : {"idle", "attach", "drop", "copy"}, lease : Holders, until : Nat,
                     copiedSeed : Nat, copiedGen : Nat, peer : BOOLEAN]
    BY <1>5 DEF DropFinish, Forgotten, MicLinkInv, MicLinkTyped
  <2>2. /\ priv'.cell = Silent /\ priv' \in [gen : Nat, cell : Cells]
        /\ prod'.pc = "none" /\ prod'.seed = 0 /\ prod'.clock = 0 /\ prod'.mute = 0
        /\ prod' \in [pc : {"none", "idle", "reset", "seed", "write", "deadline", "stopped"},
                      seed : Nat, clock : Nat, mute : Nat]
    BY <1>5 DEF DropFinish, ResetPrivate, NoProducer, MicLinkInv, MicLinkTyped
  <2>3. /\ region' = FreshRegion /\ muted' = 0 /\ UNCHANGED <<micNow, hal, gate, unused, io, heard>>
    BY <1>5 DEF DropFinish
  <2>4. MicLinkTyped'
    BY <2>1, <2>2, <2>3 DEF MicLinkInv, MicLinkTyped
  <2>5. GateWithin'
    BY <2>1, <2>2, <2>3 DEF MicLinkInv, MicLinkTyped, GateWithin
  <2>6. ProducerFollows' /\ RegionCurrent' /\ PrivateCurrent' /\ heard'
    BY <2>1, <2>2, <2>3
      DEF MicLinkInv, MicLinkTyped, ProducerFollows, RegionCurrent, PrivateCurrent
  <2>7. ReaderCurrent'
    BY <2>1, <2>3 DEF MicLinkInv, ReaderCurrent
  <2> QED
    BY <2>4, <2>5, <2>6, <2>7 DEF MicLinkInv
<1>6. ASSUME Reconnect PROVE MicLinkInv'
  <2>1. /\ ctl'.pc = ctl.pc /\ ctl'.lease = ctl.lease
        /\ ctl'.until = ctl.until /\ ctl'.copiedGen = ctl.copiedGen
        /\ ctl' \in [pc : {"idle", "attach", "drop", "copy"}, lease : Holders, until : Nat,
                     copiedSeed : Nat, copiedGen : Nat, peer : BOOLEAN]
        /\ UNCHANGED <<micNow, hal, priv, gate, region, prod, unused, io, muted, heard>>
    BY <1>6 DEF Reconnect, MicLinkInv, MicLinkTyped
  <2> QED
    BY <2>1
      DEF MicLinkInv, MicLinkTyped, GateWithin, ProducerFollows, RegionCurrent, PrivateCurrent,
          ReaderCurrent
<1> QED
  BY <1>1, <1>2, <1>3, <1>4, <1>5, <1>6

\* micIPCTick up to the copy, and the copy.
LEMMA TickKeepsLink ==
  ASSUME MicLinkInv, TickBegin \/ TickCopy PROVE MicLinkInv'
<1> USE MicLinkConstants
<1>0. /\ ctl \in [pc : {"idle", "attach", "drop", "copy"}, lease : Holders, until : Nat,
                  copiedSeed : Nat, copiedGen : Nat, peer : BOOLEAN]
      /\ region \in [gen : Nat, cell : Cells, seed : Nat, running : BOOLEAN, producerSeed : Nat,
                     deadline : Nat]
      /\ gate \in [lease : Holders, deadline : Nat] /\ priv \in [gen : Nat, cell : Cells]
      /\ micNow \in Nat /\ hal.seed \in Nat /\ hal.running \in BOOLEAN
  BY DEF MicLinkInv, MicLinkTyped
<1>1. ASSUME TickBegin, micNow >= ctl.until PROVE MicLinkInv'
  <2>1. /\ ctl'.pc = "drop" /\ ctl'.lease = ctl.lease /\ ctl.pc = "idle"
        /\ ctl'.until = ctl.until /\ ctl'.copiedGen = ctl.copiedGen
        /\ ctl' \in [pc : {"idle", "attach", "drop", "copy"}, lease : Holders, until : Nat,
                     copiedSeed : Nat, copiedGen : Nat, peer : BOOLEAN]
    BY <1>0, <1>1 DEF TickBegin
  <2>2. /\ gate'.lease = 0 /\ gate'.deadline = 0 /\ gate' \in [lease : Holders, deadline : Nat]
        /\ UNCHANGED <<micNow, hal, priv, region, prod, unused, io, muted, heard>>
    BY <1>1 DEF TickBegin, CloseGate
  <2>3. MicLinkTyped' /\ ProducerFollows' /\ RegionCurrent' /\ PrivateCurrent' /\ heard' /\ ReaderCurrent'
    BY <2>1, <2>2
      DEF MicLinkInv, MicLinkTyped, ProducerFollows, RegionCurrent, PrivateCurrent, ReaderCurrent
  <2>4. GateWithin'
    BY <2>1, <2>2 DEF MicLinkInv, MicLinkTyped, GateWithin
  <2> QED
    BY <2>3, <2>4 DEF MicLinkInv
<1>2. ASSUME TickBegin, ~(micNow >= ctl.until) PROVE MicLinkInv'
  <2> DEFINE stale == hal.seed # ctl.copiedSeed \/ region.gen # ctl.copiedGen
             admit == hal.running /\ region.deadline > micNow /\ region.producerSeed = hal.seed
             next == IF admit THEN "copy" ELSE "idle"
  <2>1. /\ ctl.pc = "idle" /\ ctl.lease # 0
        /\ region' = [region EXCEPT !.seed = hal.seed, !.running = hal.running]
        /\ IF stale THEN ResetPrivate ELSE UNCHANGED priv
        /\ gate' = IF stale \/ ~admit THEN [gate EXCEPT !.deadline = 0] ELSE gate
        /\ ctl' = [ctl EXCEPT !.copiedSeed = hal.seed, !.copiedGen = region.gen, !.pc = next]
        /\ muted' = prod.mute /\ UNCHANGED <<micNow, hal, prod, unused, io, heard>>
    BY <1>2 DEF TickBegin
  <2>2. next \in {"idle", "copy"} /\ (next = "copy" => region.producerSeed = hal.seed)
    OBVIOUS
  <2>3. ~stale => region.gen = ctl.copiedGen
    OBVIOUS
  <2> HIDE DEF stale, admit, next
  <2>4. /\ ctl'.pc = next /\ ctl'.lease = ctl.lease /\ ctl'.until = ctl.until
        /\ ctl'.copiedGen = region.gen
        /\ ctl' \in [pc : {"idle", "attach", "drop", "copy"}, lease : Holders, until : Nat,
                     copiedSeed : Nat, copiedGen : Nat, peer : BOOLEAN]
    BY <1>0, <2>1, <2>2
  <2>5. /\ region'.gen = region.gen /\ region'.cell = region.cell /\ region'.seed = hal.seed
        /\ region'.producerSeed = region.producerSeed
        /\ region' \in [gen : Nat, cell : Cells, seed : Nat, running : BOOLEAN, producerSeed : Nat,
                        deadline : Nat]
    BY <1>0, <2>1
  <2>6. /\ gate'.lease = gate.lease /\ gate'.deadline \in {0, gate.deadline}
        /\ gate' \in [lease : Holders, deadline : Nat]
    BY <1>0, <2>1
  <2>7. /\ priv' \in [gen : Nat, cell : Cells]
        /\ priv'.cell = Silent \/ (priv'.cell = priv.cell /\ region.gen = ctl.copiedGen)
    BY <1>0, <2>1, <2>3, ResetFields DEF MicLinkInv
  <2>8. MicLinkTyped'
    BY <2>1, <2>4, <2>5, <2>6, <2>7 DEF MicLinkInv, MicLinkTyped
  <2>9. GateWithin'
    BY <1>0, <2>1, <2>2, <2>4, <2>6 DEF MicLinkInv, GateWithin
  <2>10. ProducerFollows'
    <3>1. prod.seed \in Nat /\ prod.clock \in Nat /\ region.seed \in Nat /\ region.producerSeed \in Nat
      BY DEF MicLinkInv, MicLinkTyped
    <3>2. region.producerSeed = hal.seed => prod.seed = hal.seed
      BY <1>0, <3>1 DEF MicLinkInv, ProducerFollows
    <3> QED
      BY <1>0, <2>1, <2>2, <2>4, <2>5, <3>1, <3>2 DEF MicLinkInv, ProducerFollows
  <2>11. RegionCurrent' /\ heard' /\ ReaderCurrent'
    BY <2>1, <2>4, <2>5 DEF MicLinkInv, RegionCurrent, ReaderCurrent
  <2>12. PrivateCurrent'
    <3>1. prod.mute \in Nat /\ region.gen \in Nat
      BY DEF MicLinkInv, MicLinkTyped
    <3> QED
      BY <2>1, <2>4, <2>5, <2>7, <3>1 DEF MicLinkInv, PrivateCurrent
  <2> QED
    BY <2>8, <2>9, <2>10, <2>11, <2>12 DEF MicLinkInv
<1>3. ASSUME TickCopy PROVE MicLinkInv'
  <2> DEFINE wanted == IF region.deadline > micNow + InputTicks THEN micNow + InputTicks
                       ELSE region.deadline
             deadline == IF wanted > ctl.until THEN ctl.until ELSE wanted
  <2>1. /\ ctl.pc = "copy" /\ priv' = [priv EXCEPT !.cell = region.cell]
        /\ gate' = [gate EXCEPT !.deadline = deadline] /\ ctl' = [ctl EXCEPT !.pc = "idle"]
        /\ UNCHANGED <<micNow, hal, region, prod, unused, io, muted, heard>>
    BY <1>3 DEF TickCopy
  <2>2. deadline \in Nat /\ deadline <= ctl.until
    <3>1. ctl.until \in Nat /\ region.deadline \in Nat /\ micNow + InputTicks \in Nat
      BY <1>0
    <3>2. wanted \in Nat
      BY <3>1
    <3> HIDE DEF wanted
    <3> QED
      BY <3>1, <3>2
  <2> HIDE DEF deadline
  <2>3. /\ ctl'.pc = "idle" /\ ctl'.lease = ctl.lease /\ ctl'.until = ctl.until
        /\ ctl'.copiedGen = ctl.copiedGen
        /\ ctl' \in [pc : {"idle", "attach", "drop", "copy"}, lease : Holders, until : Nat,
                     copiedSeed : Nat, copiedGen : Nat, peer : BOOLEAN]
    BY <1>0, <2>1
  <2>4. /\ priv'.cell = region.cell /\ priv' \in [gen : Nat, cell : Cells]
        /\ gate'.lease = gate.lease /\ gate'.deadline = deadline
        /\ gate' \in [lease : Holders, deadline : Nat]
    BY <1>0, <2>1, <2>2
  <2>5. MicLinkTyped'
    BY <2>1, <2>3, <2>4 DEF MicLinkInv, MicLinkTyped
  <2>6. GateWithin'
    BY <2>1, <2>2, <2>3, <2>4 DEF MicLinkInv, GateWithin
  <2>7. ProducerFollows' /\ RegionCurrent' /\ heard' /\ ReaderCurrent'
    BY <2>1, <2>3 DEF MicLinkInv, ProducerFollows, RegionCurrent, ReaderCurrent
  <2>8. PrivateCurrent'
    <3>1. region.cell # Silent =>
            region.cell.lease = ctl.lease /\ region.cell.seed = hal.seed /\ region.cell.mute = prod.mute
      BY <2>1 DEF MicLinkInv, RegionCurrent, ProducerFollows
    <3> QED
      BY <2>1, <2>3, <2>4, <3>1 DEF MicLinkInv, MicLinkTyped, PrivateCurrent
  <2> QED
    BY <2>5, <2>6, <2>7, <2>8 DEF MicLinkInv
<1> QED
  BY <1>1, <1>2, <1>3

\* The producer's tick, silence and stop.
LEMMA ProducerKeepsLink ==
  ASSUME MicLinkInv,
         ProducerTick \/ ProducerReset \/ ProducerWrite \/ Silence \/ StopProducer
  PROVE  MicLinkInv'
<1> USE MicLinkConstants
<1> DEFINE Regions == [gen : Nat, cell : Cells, seed : Nat, running : BOOLEAN, producerSeed : Nat,
                       deadline : Nat]
           Producers == [pc : {"none", "idle", "reset", "seed", "write", "deadline", "stopped"},
                         seed : Nat, clock : Nat, mute : Nat]
<1>0. /\ region \in Regions /\ prod \in Producers /\ micNow \in Nat /\ hal.seed \in Nat
      /\ region.seed \in Nat /\ region.gen \in Nat /\ region.producerSeed \in Nat
      /\ prod.seed \in Nat /\ prod.clock \in Nat /\ prod.mute \in Nat
      /\ ctl.lease \in Holders /\ muted \in Nat /\ ctl.copiedGen \in Nat
  BY DEF MicLinkInv, MicLinkTyped
\* No other process moves.
<1>1. ASSUME region' \in Regions, prod' \in Producers, region'.gen >= region.gen,
             region'.seed = region.seed, ProducerFollows', RegionCurrent',
             region'.gen = region.gen => prod'.mute = prod.mute, prod'.mute >= prod.mute,
             UNCHANGED <<micNow, hal, priv, gate, ctl, unused, io, muted, heard>>
      PROVE  MicLinkInv'
  <2>1. MicLinkTyped'
    BY <1>1 DEF MicLinkInv, MicLinkTyped
  <2>2. GateWithin' /\ ReaderCurrent' /\ heard'
    BY <1>1 DEF MicLinkInv, GateWithin, ReaderCurrent
  <2>3. PrivateCurrent'
    <3>1. region'.gen \in Nat /\ prod'.mute \in Nat
      BY <1>1
    <3> HIDE DEF Regions, Producers
    <3> QED
      BY <1>0, <1>1, <3>1 DEF MicLinkInv, PrivateCurrent
  <2> QED
    BY <1>1, <2>1, <2>2, <2>3 DEF MicLinkInv
\* The region is emptied.
<1>1a. ASSUME region' = [region EXCEPT !.deadline = 0, !.gen = region.gen + 1, !.cell = Silent]
      PROVE  /\ region' \in Regions /\ region'.gen = region.gen + 1 /\ region'.seed = region.seed
             /\ region'.cell = Silent /\ region'.producerSeed = region.producerSeed
  <2> DEFINE g == region.gen + 1
  <2>1. g \in Nat /\ Silent \in Cells
    BY <1>0
  <2>2. region' = [region EXCEPT !.deadline = 0, !.gen = g, !.cell = Silent]
    BY <1>1a
  <2> HIDE DEF g
  <2>3. /\ region' \in Regions /\ region'.gen = g /\ region'.seed = region.seed
        /\ region'.cell = Silent /\ region'.producerSeed = region.producerSeed
    BY ONLY <1>0, <2>1, <2>2
  <2> QED
    BY <2>3 DEF g
<1>2. ASSUME ProducerTick PROVE MicLinkInv'
  <2>1. CASE ~region.running
    <3>1. region' = [region EXCEPT !.deadline = 0] /\ prod' = prod
          /\ UNCHANGED <<micNow, hal, priv, gate, ctl, unused, io, muted, heard>>
      BY <1>2, <2>1 DEF ProducerTick
    <3>2. /\ region' \in Regions /\ region'.gen = region.gen /\ region'.seed = region.seed
          /\ region'.cell = region.cell /\ region'.producerSeed = region.producerSeed
      BY <1>0, <3>1
    <3> HIDE DEF Regions, Producers
    <3>3. ProducerFollows' /\ RegionCurrent'
      BY <3>1, <3>2 DEF MicLinkInv, ProducerFollows, RegionCurrent
    <3> QED
      BY <1>0, <1>1, <3>1, <3>2, <3>3
  <2>2. CASE region.running
    <3>0. PICK late \in BOOLEAN : prod' = [prod EXCEPT !.clock = region.seed,
                                      !.pc = IF late \/ prod.seed # region.seed THEN "reset" ELSE "write"]
      BY <1>2, <2>2 DEF ProducerTick
    <3> DEFINE next == IF late \/ prod.seed # region.seed THEN "reset" ELSE "write"
    <3>1. /\ prod' = [prod EXCEPT !.clock = region.seed, !.pc = next] /\ region' = region
          /\ prod.pc = "idle" /\ UNCHANGED <<micNow, hal, priv, gate, ctl, unused, io, muted, heard>>
      BY <1>2, <2>2, <3>0 DEF ProducerTick
    <3>2. next \in {"reset", "write"}
      OBVIOUS
    <3> HIDE DEF next
    <3>3. /\ prod' \in Producers /\ prod'.pc = next /\ prod'.seed = prod.seed
          /\ prod'.clock = region.seed /\ prod'.mute = prod.mute
      BY <1>0, <3>1, <3>2
    <3> HIDE DEF Regions, Producers
    <3>4. ProducerFollows' /\ RegionCurrent'
      BY <1>0, <3>1, <3>2, <3>3 DEF MicLinkInv, ProducerFollows, RegionCurrent
    <3> QED
      BY <1>0, <1>1, <3>1, <3>3, <3>4
  <2> QED
    BY <2>1, <2>2
<1>3. ASSUME ProducerReset, prod.pc = "reset" PROVE MicLinkInv'
  <2>1. /\ region' = [region EXCEPT !.deadline = 0, !.gen = region.gen + 1, !.cell = Silent]
        /\ prod' = [prod EXCEPT !.pc = "seed", !.seed = prod.clock]
        /\ UNCHANGED <<micNow, hal, priv, gate, ctl, unused, io, muted, heard>>
    BY <1>3 DEF ProducerReset
  <2>2. /\ region' \in Regions /\ region'.gen = region.gen + 1 /\ region'.seed = region.seed
        /\ region'.cell = Silent /\ region'.producerSeed = region.producerSeed
    BY <2>1, <1>1a
  <2>3. /\ prod' \in Producers /\ prod'.pc = "seed" /\ prod'.seed = prod.clock
        /\ prod'.clock = prod.clock /\ prod'.mute = prod.mute
    BY <1>0, <2>1
  <2> HIDE DEF Regions, Producers
  <2>4. ProducerFollows' /\ RegionCurrent'
    BY <1>0, <1>3, <2>1, <2>2, <2>3 DEF MicLinkInv, ProducerFollows, RegionCurrent
  <2> QED
    BY <1>0, <1>1, <2>1, <2>2, <2>3, <2>4
<1>4. ASSUME ProducerReset, prod.pc # "reset" PROVE MicLinkInv'
  <2>1. /\ prod.pc = "seed" /\ region' = [region EXCEPT !.producerSeed = prod.clock]
        /\ prod' = [prod EXCEPT !.pc = "write"]
        /\ UNCHANGED <<micNow, hal, priv, gate, ctl, unused, io, muted, heard>>
    BY <1>4 DEF ProducerReset
  <2>2. /\ region' \in Regions /\ region'.gen = region.gen /\ region'.seed = region.seed
        /\ region'.cell = region.cell /\ region'.producerSeed = prod.clock
    BY <1>0, <2>1
  <2>3. /\ prod' \in Producers /\ prod'.pc = "write" /\ prod'.seed = prod.seed
        /\ prod'.clock = prod.clock /\ prod'.mute = prod.mute
    BY <1>0, <2>1
  <2> HIDE DEF Regions, Producers
  <2>4. ProducerFollows' /\ RegionCurrent'
    BY <1>0, <2>1, <2>2, <2>3 DEF MicLinkInv, ProducerFollows, RegionCurrent
  <2> QED
    BY <1>0, <1>1, <2>1, <2>2, <2>3, <2>4
<1>5. ASSUME ProducerWrite, prod.pc = "write" PROVE MicLinkInv'
  <2> DEFINE cell == [lease |-> ctl.lease, seed |-> prod.seed, mute |-> prod.mute]
  <2>1. /\ region' = [region EXCEPT !.cell = cell] /\ prod' = [prod EXCEPT !.pc = "deadline"]
        /\ UNCHANGED <<micNow, hal, priv, gate, ctl, unused, io, muted, heard>>
    BY <1>5 DEF ProducerWrite
  <2>2. /\ cell \in Cells /\ cell.lease = ctl.lease /\ cell.seed = prod.seed /\ cell.mute = prod.mute
    BY <1>0 DEF Cells
  <2> HIDE DEF cell
  <2>3. /\ region' \in Regions /\ region'.gen = region.gen /\ region'.seed = region.seed
        /\ region'.cell = cell /\ region'.producerSeed = region.producerSeed
    BY <1>0, <2>1, <2>2
  <2>4. /\ prod' \in Producers /\ prod'.pc = "deadline" /\ prod'.seed = prod.seed
        /\ prod'.clock = prod.clock /\ prod'.mute = prod.mute
    BY <1>0, <2>1
  <2> HIDE DEF Regions, Producers
  <2>5. ProducerFollows' /\ RegionCurrent'
    BY <1>0, <1>5, <2>1, <2>2, <2>3, <2>4 DEF MicLinkInv, ProducerFollows, RegionCurrent
  <2> QED
    BY <1>0, <1>1, <2>1, <2>3, <2>4, <2>5
<1>6. ASSUME ProducerWrite, prod.pc # "write" PROVE MicLinkInv'
  <2>1. /\ prod.pc = "deadline" /\ region' = [region EXCEPT !.deadline = micNow + InputTicks]
        /\ prod' = [prod EXCEPT !.pc = "idle"]
        /\ UNCHANGED <<micNow, hal, priv, gate, ctl, unused, io, muted, heard>>
    BY <1>6 DEF ProducerWrite
  <2>2. /\ region' \in Regions /\ region'.gen = region.gen /\ region'.seed = region.seed
        /\ region'.cell = region.cell /\ region'.producerSeed = region.producerSeed
    BY <1>0, <2>1
  <2>3. /\ prod' \in Producers /\ prod'.pc = "idle" /\ prod'.seed = prod.seed
        /\ prod'.clock = prod.clock /\ prod'.mute = prod.mute
    BY <1>0, <2>1
  <2> HIDE DEF Regions, Producers
  <2>4. ProducerFollows' /\ RegionCurrent'
    BY <1>0, <2>1, <2>2, <2>3 DEF MicLinkInv, ProducerFollows, RegionCurrent
  <2> QED
    BY <1>0, <1>1, <2>1, <2>2, <2>3, <2>4
<1>7. ASSUME Silence PROVE MicLinkInv'
  <2>1. /\ prod.pc = "idle"
        /\ region' = [region EXCEPT !.deadline = 0, !.gen = region.gen + 1, !.cell = Silent]
        /\ prod' = [prod EXCEPT !.mute = prod.mute + 1]
        /\ UNCHANGED <<micNow, hal, priv, gate, ctl, unused, io, muted, heard>>
    BY <1>7 DEF Silence
  <2>2. /\ region' \in Regions /\ region'.gen = region.gen + 1 /\ region'.seed = region.seed
        /\ region'.cell = Silent /\ region'.producerSeed = region.producerSeed
    BY <2>1, <1>1a
  <2>3. /\ prod' \in Producers /\ prod'.pc = "idle" /\ prod'.seed = prod.seed
        /\ prod'.clock = prod.clock /\ prod'.mute = prod.mute + 1
    BY <1>0, <2>1
  <2> HIDE DEF Regions, Producers
  <2>4. ProducerFollows' /\ RegionCurrent'
    BY <1>0, <2>1, <2>2, <2>3 DEF MicLinkInv, ProducerFollows, RegionCurrent
  <2> QED
    BY <1>0, <1>1, <2>1, <2>2, <2>3, <2>4
<1>8. ASSUME StopProducer PROVE MicLinkInv'
  <2>1. /\ prod.pc = "idle" /\ region' = [region EXCEPT !.deadline = 0]
        /\ prod' = [prod EXCEPT !.pc = "stopped"]
        /\ UNCHANGED <<micNow, hal, priv, gate, ctl, unused, io, muted, heard>>
    BY <1>8 DEF StopProducer
  <2>2. /\ region' \in Regions /\ region'.gen = region.gen /\ region'.seed = region.seed
        /\ region'.cell = region.cell /\ region'.producerSeed = region.producerSeed
    BY <1>0, <2>1
  <2>3. /\ prod' \in Producers /\ prod'.pc = "stopped" /\ prod'.seed = prod.seed
        /\ prod'.clock = prod.clock /\ prod'.mute = prod.mute
    BY <1>0, <2>1
  <2> HIDE DEF Regions, Producers
  <2>4. ProducerFollows' /\ RegionCurrent'
    BY <1>0, <2>1, <2>2, <2>3 DEF MicLinkInv, ProducerFollows, RegionCurrent
  <2> QED
    BY <1>0, <1>1, <2>1, <2>2, <2>3, <2>4
<1> QED
  BY <1>2, <1>3, <1>4, <1>5, <1>6, <1>7, <1>8

\* micIPCRead: what it returns is admitted when it returns.
LEMMA ReaderKeepsLink ==
  ASSUME MicLinkInv, ReadBegins \/ ReadAdmitted \/ ReadCell \/ ReadKeepsLease \/ ReadReturns
  PROVE  MicLinkInv'
<1> USE MicLinkConstants
<1> DEFINE Reads == [pc : {"idle", "deadline", "gen", "cell", "again", "lease", "gate"},
                     lease : Holders, gen : Nat, cell : Cells]
<1>0. io \in Reads /\ priv.gen \in Nat /\ priv.cell \in Cells /\ gate.lease \in Holders
  BY DEF MicLinkInv, MicLinkTyped
\* No other process moves.
<1>1. ASSUME io' \in Reads, ReaderCurrent', heard',
             UNCHANGED <<micNow, hal, priv, gate, ctl, region, prod, unused, muted>>
      PROVE  MicLinkInv'
  <2>1. MicLinkTyped'
    BY <1>1 DEF MicLinkInv, MicLinkTyped
  <2>2. GateWithin' /\ ProducerFollows' /\ RegionCurrent' /\ PrivateCurrent'
    BY <1>1 DEF MicLinkInv, GateWithin, ProducerFollows, RegionCurrent, PrivateCurrent
  <2> QED
    BY <1>1, <2>1, <2>2 DEF MicLinkInv
<1>2. ASSUME ReadBegins PROVE MicLinkInv'
  <2>1. /\ io.pc = "idle" /\ hal.running /\ gate.lease # 0
        /\ io' = [io EXCEPT !.pc = "deadline", !.lease = gate.lease]
        /\ UNCHANGED <<micNow, hal, priv, gate, ctl, region, prod, unused, muted, heard>>
    BY <1>2 DEF ReadBegins
  <2>2. io' \in Reads /\ io'.pc = "deadline" /\ io'.lease = gate.lease
    BY <1>0, <2>1
  <2> HIDE DEF Reads
  <2>3. gate.lease \notin unused
    BY <2>1 DEF MicLinkInv, GateWithin
  <2>4. ReaderCurrent' /\ heard'
    BY <2>1, <2>2, <2>3 DEF MicLinkInv, ReaderCurrent
  <2> QED
    BY <1>1, <2>1, <2>2, <2>4
<1>3. ASSUME ReadCell, io.pc = "gen" PROVE MicLinkInv'
  <2>1. /\ io' = [io EXCEPT !.pc = "cell", !.gen = priv.gen]
        /\ UNCHANGED <<micNow, hal, priv, gate, ctl, region, prod, unused, muted, heard>>
    BY <1>3 DEF ReadCell
  <2>2. io' \in Reads /\ io'.pc = "cell" /\ io'.lease = io.lease
    BY <1>0, <2>1
  <2> HIDE DEF Reads
  <2>3. ReaderCurrent' /\ heard'
    BY <1>3, <2>1, <2>2 DEF MicLinkInv, ReaderCurrent
  <2> QED
    BY <1>1, <2>1, <2>2, <2>3
<1>4. ASSUME ReadCell, io.pc = "cell" PROVE MicLinkInv'
  <2>1. /\ io' = [io EXCEPT !.pc = "again", !.cell = priv.cell]
        /\ UNCHANGED <<micNow, hal, priv, gate, ctl, region, prod, unused, muted, heard>>
    BY <1>4 DEF ReadCell
  <2>2. io' \in Reads /\ io'.pc = "again" /\ io'.lease = io.lease /\ io'.cell = priv.cell
    BY <1>0, <2>1
  <2> HIDE DEF Reads
  <2>3. ReaderCurrent' /\ heard'
    BY <1>4, <2>1, <2>2 DEF MicLinkInv, ReaderCurrent, PrivateCurrent
  <2> QED
    BY <1>1, <2>1, <2>2, <2>3
<1>5. ASSUME ReadCell, io.pc = "again" PROVE MicLinkInv'
  <2> DEFINE cell == IF priv.gen = io.gen THEN io.cell ELSE Silent
  <2>1. /\ io' = [io EXCEPT !.pc = "lease", !.cell = cell, !.gen = 0]
        /\ UNCHANGED <<micNow, hal, priv, gate, ctl, region, prod, unused, muted, heard>>
    BY <1>5 DEF ReadCell
  <2>2. cell \in {io.cell, Silent} /\ cell \in Cells
    BY <1>0
  <2> HIDE DEF cell
  <2>3. io' \in Reads /\ io'.pc = "lease" /\ io'.lease = io.lease /\ io'.cell = cell
    BY <1>0, <2>1, <2>2
  <2> HIDE DEF Reads
  <2>4. ReaderCurrent' /\ heard'
    BY <1>5, <2>1, <2>2, <2>3 DEF MicLinkInv, ReaderCurrent
  <2> QED
    BY <1>1, <2>1, <2>3, <2>4
<1>6. ASSUME ReadAdmitted PROVE MicLinkInv'
  <2>1. /\ io.pc = "deadline" /\ io' \in {[io EXCEPT !.pc = "gen"], NoRead}
        /\ UNCHANGED <<micNow, hal, priv, gate, ctl, region, prod, unused, muted, heard>>
    BY <1>6 DEF ReadAdmitted
  <2>2. io' \in Reads /\ \/ io'.pc = "idle"
                         \/ io'.pc = "gen" /\ io'.lease = io.lease
    BY <1>0, <2>1 DEF NoRead
  <2> HIDE DEF Reads
  <2>3. ReaderCurrent' /\ heard'
    BY <2>1, <2>2 DEF MicLinkInv, ReaderCurrent
  <2> QED
    BY <1>1, <2>1, <2>2, <2>3
<1>7. ASSUME ReadKeepsLease PROVE MicLinkInv'
  <2>1. /\ io.pc = "lease"
        /\ io' = IF gate.lease = io.lease THEN [io EXCEPT !.pc = "gate"] ELSE NoRead
        /\ UNCHANGED <<micNow, hal, priv, gate, ctl, region, prod, unused, muted>>
    BY <1>7 DEF ReadKeepsLease
  <2>2. io' \in Reads /\ \/ io'.pc = "idle"
                         \/ /\ io'.pc = "gate" /\ io'.lease = io.lease /\ io'.cell = io.cell
                            /\ gate.lease = io.lease
    BY <1>0, <2>1 DEF NoRead
  <2> HIDE DEF Reads
  <2>3. ASSUME gate.lease = io.lease, io.cell # Silent
        PROVE  io.cell.lease = ctl.lease /\ io.cell.lease = io.lease /\ io.cell.seed = hal.seed
    BY <2>1, <2>3 DEF MicLinkInv, GateWithin, ReaderCurrent
  <2>4. heard'
    BY <1>7, <2>3 DEF ReadKeepsLease, OfThisLease, MicLinkInv
  <2>5. ReaderCurrent'
    BY <2>1, <2>2, <2>3 DEF MicLinkInv, ReaderCurrent
  <2> QED
    BY <1>1, <2>1, <2>2, <2>4, <2>5
<1>8. ASSUME ReadReturns PROVE MicLinkInv'
  <2>1. /\ io.pc = "gate" /\ io' = NoRead
        /\ UNCHANGED <<micNow, hal, priv, gate, ctl, region, prod, unused, muted>>
    BY <1>8 DEF ReadReturns
  <2>2. io' \in Reads /\ io'.pc = "idle"
    BY <2>1 DEF NoRead
  <2>3. ASSUME IoOpen
        PROVE  ctl.lease # 0 /\ gate.lease = ctl.lease /\ micNow < ctl.until
    <3>1. gate.deadline # 0 /\ micNow < ctl.until
      BY <2>3 DEF IoOpen, MicLinkInv, MicLinkTyped, GateWithin
    <3> QED
      BY <3>1 DEF MicLinkInv, GateWithin
  <2>4. ASSUME io.cell # Silent
        PROVE  /\ io.cell.lease = io.lease /\ io.cell.seed = hal.seed
               /\ ctl.lease = io.lease => io.cell.lease = ctl.lease
    BY <2>1, <2>4 DEF MicLinkInv, ReaderCurrent
  <2>5. heard'
    BY <1>8, <2>3, <2>4 DEF ReadReturns, OfThisLease, MicLinkInv
  <2> HIDE DEF Reads
  <2>6. ReaderCurrent'
    BY <2>2 DEF ReaderCurrent
  <2> QED
    BY <1>1, <2>1, <2>2, <2>5, <2>6
<1>9. ReadCell => io.pc \in {"gen", "cell", "again"}
  BY DEF ReadCell
<1> QED
  BY <1>2, <1>3, <1>4, <1>5, <1>6, <1>7, <1>8, <1>9

LEMMA MicLinkInvariant == MicLinkSpec => []MicLinkInv
<1>1. MicLinkInv /\ [MicLinkNext]_micLinkVars => MicLinkInv'
  <2> SUFFICES ASSUME MicLinkInv, [MicLinkNext]_micLinkVars PROVE MicLinkInv'
    OBVIOUS
  <2>1. CASE UNCHANGED micLinkVars
    BY <2>1
      DEF micLinkVars, MicLinkInv, MicLinkTyped, GateWithin, ProducerFollows, RegionCurrent,
          PrivateCurrent, ReaderCurrent
  <2>2. CASE MicLinkNext
    BY <2>2, DeviceKeepsLink, ControlKeepsLink, TickKeepsLink, ProducerKeepsLink, ReaderKeepsLink
      DEF MicLinkNext
  <2> QED
    BY <2>1, <2>2
<1> QED
  BY <1>1, MicLinkInitHolds, PTL DEF MicLinkSpec

\* Whatever the broker, the driver, the producer and the realtime thread do between one
\* another's steps, an application only hears speech made for the clock that runs and for the
\* lease held when the reader loaded it last, delivered before a renewal of the broker ran
\* out; that lease is still the one held at the load of the deadline that follows, or its
\* successor has been opened between the two loads; and no speech from before the last mute
\* that a tick has seen is in the driver's history; for any leases, lifetimes and restarts.
THEOREM AdmittedSpeech == MicLinkSpec => []OnlyAdmittedSpeech
<1>1. MicLinkInv => OnlyAdmittedSpeech
  <2> SUFFICES ASSUME MicLinkInv PROVE OnlyAdmittedSpeech
    OBVIOUS
  <2>1. priv.cell # Silent => priv.cell.mute >= muted
    BY DEF MicLinkInv, PrivateCurrent
  <2>2. heard
    BY DEF MicLinkInv
  <2> QED
    BY <2>1, <2>2, MicLinkConstants DEF OnlyAdmittedSpeech
<1> QED
  BY <1>1, MicLinkInvariant, PTL

(***************************************************************************)
(* AudioControls                                                           *)
(***************************************************************************)

GainLevels == Zero..Unity

ControlsTyped ==
  /\ outputGain \in GainLevels /\ outputMute \in 0..1
  /\ setter \in [Setters -> {"idle", "volume", "mute", "device"}]
  /\ device \in Nat /\ reloads \in Nat /\ notices \in Nat /\ observed \in Int
  /\ refresh.step \in Values \cup {"idle", "apply"} /\ refresh.gain \in GainLevels
  /\ ownerQueue \in Seq(GainLevels) /\ tapGain \in GainLevels
  /\ tapFailed \in BOOLEAN /\ tapStopped \in BOOLEAN

\* What the stream should be at, and the last gain that is on its way to it.
DeviceGain == IF device # 0 /\ outputMute = 0 THEN outputGain ELSE Zero
LastGain == IF ownerQueue = <<>> THEN tapGain ELSE ownerQueue[Len(ownerQueue)]

\* A change of device is noticed; a device that is gone has failed the tap.
DeviceObserved ==
  /\ ~tapStopped /\ observed # device => notices > 0
  /\ observed = 0 => tapFailed
  /\ refresh.step = "idle" => refresh = NoRefresh
  /\ refresh.step \in Values => observed # 0

\* With no call of SetPropertyData and no notice outstanding, the refresh that may be under
\* way has read what holds now, and one that is over has handed it on.
GainOnItsWay ==
  ~tapStopped /\ notices = 0 /\ (\A t \in Setters : setter[t] = "idle") =>
    /\ refresh.step = "idle" => LastGain = DeviceGain
    /\ refresh.step = "mute" => refresh.gain = outputGain
    /\ refresh.step \in {"channels", "apply"} => refresh.gain = DeviceGain

ControlsInv == ControlsTyped /\ DeviceObserved /\ GainOnItsWay

LEMMA ControlsInitHolds == AudioControlsInit => ControlsInv
<1> SUFFICES ASSUME AudioControlsInit PROVE ControlsInv
  OBVIOUS
<1>1. Zero \in GainLevels /\ Unity \in GainLevels
  BY DEF GainLevels, Zero, Unity
<1>2. ControlsTyped
  <2>1. ownerQueue \in Seq(GainLevels)
    BY EmptySeq DEF AudioControlsInit
  <2>2. refresh.step \in Values \cup {"idle", "apply"} /\ refresh.gain \in GainLevels
    BY <1>1 DEF AudioControlsInit, NoRefresh, Values
  <2>3. setter \in [Setters -> {"idle", "volume", "mute", "device"}]
    BY DEF AudioControlsInit
  <2>4. device \in Nat /\ reloads \in Nat /\ notices \in Nat /\ observed \in Int /\ outputMute \in 0..1
    BY DEF AudioControlsInit
  <2> QED
    BY <1>1, <2>1, <2>2, <2>3, <2>4 DEF AudioControlsInit, ControlsTyped
<1>3. DeviceObserved
  BY DEF AudioControlsInit, DeviceObserved, NoRefresh, Values
<1>4. GainOnItsWay
  BY DEF AudioControlsInit, GainOnItsWay
<1> QED
  BY <1>2, <1>3, <1>4 DEF ControlsInv

\* SetPropertyData and its notices, on any number of threads.
LEMMA SettersKeepControls ==
  ASSUME ControlsInv, NEW t \in Setters,
         \/ \E level \in Levels, decibels \in BOOLEAN : SetGain(t, level, decibels)
         \/ \E value \in 0..2 : SetMute(t, value)
         \/ NotifyControl(t) \/ NotifyDevice(t)
  PROVE  ControlsInv'
<1>0. /\ setter \in [Setters -> {"idle", "volume", "mute", "device"}] /\ notices \in Nat
      /\ outputGain \in GainLevels /\ outputMute \in 0..1
  BY DEF ControlsInv, ControlsTyped
\* A thread that leaves "idle" is busy until it has notified.
<1>1. ASSUME NEW to \in {"volume", "mute", "device"}, setter' = [setter EXCEPT ![t] = to],
             outputGain' \in GainLevels, outputMute' \in 0..1,
             UNCHANGED <<device, reloads, notices, observed, refresh, ownerQueue, tapGain, tapFailed,
                         tapStopped>>
      PROVE  ControlsInv'
  <2>1. setter' \in [Setters -> {"idle", "volume", "mute", "device"}] /\ setter'[t] # "idle"
    BY <1>0, <1>1
  <2>2. ControlsTyped'
    BY <1>1, <2>1 DEF ControlsInv, ControlsTyped
  <2>3. DeviceObserved' /\ GainOnItsWay'
    BY <1>1, <2>1 DEF ControlsInv, DeviceObserved, GainOnItsWay
  <2> QED
    BY <2>2, <2>3 DEF ControlsInv
\* A call that is refused.
<1>2. ASSUME setter' = [setter EXCEPT ![t] = "idle"], setter[t] = "idle",
             UNCHANGED <<outputGain, outputMute, device, reloads, notices, observed, refresh,
                         ownerQueue, tapGain, tapFailed, tapStopped>>
      PROVE  ControlsInv'
  <2>1. setter' = setter
    BY <1>0, <1>2
  <2> QED
    BY <1>2, <2>1
      DEF ControlsInv, ControlsTyped, DeviceObserved, GainOnItsWay, LastGain, DeviceGain
<1>3. ASSUME NEW level \in Levels, NEW decibels \in BOOLEAN, SetGain(t, level, decibels)
      PROVE  ControlsInv'
  <2> DEFINE legal == level <= Unity /\ (decibels => level >= Floor)
  <2>1. level \in Nat
    BY AudioControlsAssumption
  <2>2. CASE legal
    <3>1. level \in GainLevels
      BY <2>1, <2>2 DEF GainLevels, Zero, Unity
    <3> QED
      BY <1>0, <1>1, <1>3, <2>2, <3>1 DEF SetGain
  <2>3. CASE ~legal
    BY <1>2, <1>3, <2>3 DEF SetGain
  <2> QED
    BY <2>2, <2>3
<1>4. ASSUME NEW value \in 0..2, SetMute(t, value) PROVE ControlsInv'
  <2>1. CASE value > 1
    BY <1>2, <1>4, <2>1 DEF SetMute
  <2>2. CASE ~(value > 1)
    <3>1. value \in 0..1
      BY <2>2
    <3> QED
      BY <1>0, <1>1, <1>4, <2>2, <3>1 DEF SetMute
  <2> QED
    BY <2>1, <2>2
<1>5. ASSUME NotifyControl(t) PROVE ControlsInv'
  BY <1>0, <1>1, <1>5 DEF NotifyControl
\* The last notice of a call: the tap hears of it, or of the change of device.
<1>6. ASSUME NotifyDevice(t) PROVE ControlsInv'
  <2> DEFINE extra == IF observed = device /\ ~tapStopped THEN 1 ELSE 0
  <2>1. /\ setter' = [setter EXCEPT ![t] = "idle"] /\ notices' = notices + extra
        /\ UNCHANGED <<outputGain, outputMute, device, reloads, observed, refresh, ownerQueue,
                       tapGain, tapFailed, tapStopped>>
    BY <1>6 DEF NotifyDevice
  <2>2. notices' \in Nat /\ notices' >= notices /\ (observed = device /\ ~tapStopped => notices' > 0)
    BY <1>0, <2>1
  <2>3. ~tapStopped => notices' > 0
    BY <1>0, <2>2 DEF ControlsInv, DeviceObserved
  <2> HIDE DEF extra
  <2>4. setter' \in [Setters -> {"idle", "volume", "mute", "device"}]
    BY <1>0, <2>1
  <2>5. ControlsTyped'
    BY <2>1, <2>2, <2>4 DEF ControlsInv, ControlsTyped
  <2>6. DeviceObserved' /\ GainOnItsWay'
    BY <2>1, <2>2, <2>3 DEF ControlsInv, DeviceObserved, GainOnItsWay
  <2> QED
    BY <2>5, <2>6 DEF ControlsInv
<1> QED
  BY <1>3, <1>4, <1>5, <1>6

\* The driver's process goes and comes back, the tap is stopped.
LEMMA DriverKeepsControls ==
  ASSUME ControlsInv, DriverLost \/ DriverBack \/ StopVolumeTap PROVE ControlsInv'
<1>0. notices \in Nat /\ reloads \in Nat /\ Unity \in GainLevels /\ 0 \in 0..1
  BY DEF ControlsInv, ControlsTyped, GainLevels, Zero, Unity
<1>1. ASSUME DriverLost PROVE ControlsInv'
  <2>1. /\ device' = 0 /\ reloads' \in Nat
        /\ setter' = [t \in Setters |-> "idle"] /\ notices' \in Nat
        /\ ~tapStopped => notices' > 0
        /\ UNCHANGED <<outputGain, outputMute, observed, refresh, ownerQueue, tapGain, tapFailed,
                       tapStopped>>
    BY <1>0, <1>1 DEF DriverLost
  <2>2. ControlsTyped'
    BY <2>1 DEF ControlsInv, ControlsTyped
  <2>3. DeviceObserved' /\ GainOnItsWay'
    BY <2>1 DEF ControlsInv, DeviceObserved, GainOnItsWay
  <2> QED
    BY <2>2, <2>3 DEF ControlsInv
<1>2. ASSUME DriverBack PROVE ControlsInv'
  <2>1. /\ device' \in Nat /\ notices' \in Nat /\ (~tapStopped => notices' > 0)
        /\ outputGain' \in GainLevels /\ outputMute' \in 0..1
        /\ UNCHANGED <<setter, reloads, observed, refresh, ownerQueue, tapGain, tapFailed,
                       tapStopped>>
    BY <1>0, <1>2 DEF DriverBack
  <2>2. ControlsTyped'
    BY <2>1 DEF ControlsInv, ControlsTyped
  <2>3. DeviceObserved' /\ GainOnItsWay'
    BY <2>1 DEF ControlsInv, DeviceObserved, GainOnItsWay
  <2> QED
    BY <2>2, <2>3 DEF ControlsInv
<1>3. ASSUME StopVolumeTap PROVE ControlsInv'
  <2>1. /\ tapStopped' = TRUE /\ notices' \in Nat
        /\ UNCHANGED <<outputGain, outputMute, setter, device, reloads, observed, refresh,
                       ownerQueue, tapGain, tapFailed>>
    BY <1>3 DEF StopVolumeTap
  <2> QED
    BY <2>1 DEF ControlsInv, ControlsTyped, DeviceObserved, GainOnItsWay
<1> QED
  BY <1>1, <1>2, <1>3

\* The control queue reads the device, the owner queue applies what it read.
LEMMA TapKeepsControls ==
  ASSUME ControlsInv, Refresh \/ AskValue \/ ReadValue \/ DispatchGain \/ ApplyGain
  PROVE  ControlsInv'
<1>0. /\ notices \in Nat /\ ownerQueue \in Seq(GainLevels)
      /\ outputGain \in GainLevels /\ Zero \in GainLevels /\ refresh.gain \in GainLevels
      /\ device \in Nat /\ observed \in Int /\ Len(ownerQueue) \in Nat
      /\ Unity \in GainLevels /\ NoRefresh.gain = Zero /\ NoRefresh.step = "idle"
  <2>1. Zero \in GainLevels /\ Unity \in GainLevels
    BY DEF GainLevels, Zero, Unity
  <2>2. NoRefresh.gain = Zero /\ NoRefresh.step = "idle"
    BY DEF NoRefresh
  <2> QED
    BY <2>1, <2>2, LenProperties DEF ControlsInv, ControlsTyped
\* A gain at the end of the owner queue is the last.
<1>1. ASSUME NEW x \in GainLevels, ownerQueue' = Append(ownerQueue, x)
      PROVE  ownerQueue' \in Seq(GainLevels) /\ LastGain' = x
  <2>1. /\ ownerQueue' \in Seq(GainLevels) /\ Len(ownerQueue') = Len(ownerQueue) + 1
        /\ ownerQueue'[Len(ownerQueue) + 1] = x
    BY <1>0, <1>1, AppendProperties
  <2>2. Len(ownerQueue') # 0
    BY <1>0, <2>1
  <2>3. ownerQueue' # <<>>
    BY <2>1, <2>2, EmptySeq
  <2> QED
    BY <2>1, <2>3 DEF LastGain
<1>2. ASSUME Refresh PROVE ControlsInv'
  <2>1. /\ refresh.step = "idle" /\ notices > 0 /\ ~tapStopped /\ notices' = notices - 1
        /\ observed' = device /\ tapFailed' = (tapFailed \/ device = 0 \/ observed \notin {-1, device})
        /\ UNCHANGED <<outputGain, outputMute, setter, sets, device, reloads, tapGain, tapStopped>>
    BY <1>2 DEF Refresh
  <2>2. notices' \in Nat /\ tapFailed' \in BOOLEAN /\ observed' \in Int /\ (device = 0 => tapFailed')
    <3>1. notices' \in Nat /\ observed' \in Int
      BY <1>0, <2>1
    <3>2. tapFailed' \in BOOLEAN /\ (device = 0 => tapFailed')
      BY <2>1, Zenon
    <3> QED
      BY <3>1, <3>2
  <2>3. CASE device # 0
    <3>1. refresh' = [NoRefresh EXCEPT !.step = "gain"] /\ UNCHANGED ownerQueue
      BY <1>2, <2>3 DEF Refresh
    <3>2. refresh'.step = "gain" /\ refresh'.gain = Zero
      BY <3>1 DEF NoRefresh
    <3>3. ControlsTyped'
      BY <1>0, <2>1, <2>2, <3>1, <3>2 DEF ControlsInv, ControlsTyped, Values
    <3>4. DeviceObserved' /\ GainOnItsWay'
      BY <2>1, <2>2, <2>3, <3>2 DEF DeviceObserved, GainOnItsWay, Values
    <3> QED
      BY <3>3, <3>4 DEF ControlsInv
  <2>4. CASE device = 0
    <3>1. ownerQueue' = Append(ownerQueue, Zero) /\ UNCHANGED refresh
      BY <1>2, <2>4 DEF Refresh
    <3>2. ownerQueue' \in Seq(GainLevels) /\ LastGain' = Zero
      BY <1>0, <1>1, <3>1
    <3>3. ControlsTyped'
      BY <2>1, <2>2, <3>1, <3>2 DEF ControlsInv, ControlsTyped
    <3>4. DeviceGain' = Zero
      BY <2>1, <2>4 DEF DeviceGain
    <3>5. DeviceObserved' /\ GainOnItsWay'
      BY <2>1, <2>2, <2>4, <3>1, <3>2, <3>4 DEF ControlsInv, DeviceObserved, GainOnItsWay, Values
    <3> QED
      BY <3>3, <3>5 DEF ControlsInv
  <2> QED
    BY <2>3, <2>4
\* While the device is there and no notice is outstanding, what the last answers said holds.
<1>3. ASSUME AskValue PROVE ControlsInv'
  <2>1. /\ refresh.step \in Values
        /\ UNCHANGED <<outputGain, outputMute, setter, sets, device, reloads, notices, observed,
                       ownerQueue, tapGain, tapFailed, tapStopped>>
    BY <1>3 DEF AskValue
  <2>2. CASE observed = device
    <3>1. refresh'.step = refresh.step /\ refresh'.gain = refresh.gain
      BY <1>3, <2>2 DEF AskValue
    <3>2. ControlsTyped'
      BY <2>1, <3>1 DEF ControlsInv, ControlsTyped
    <3>3. DeviceObserved' /\ GainOnItsWay'
      BY <2>1, <3>1 DEF ControlsInv, DeviceObserved, GainOnItsWay, DeviceGain, Values
    <3> QED
      BY <3>2, <3>3 DEF ControlsInv
  <2>3. CASE observed # device
    <3>1. /\ refresh'.step \in {"mute", "channels", "apply"} /\ refresh'.gain \in GainLevels
      BY <1>0, <1>3, <2>1, <2>3 DEF AskValue, FollowedBy, Values
    <3>2. ControlsTyped'
      BY <2>1, <3>1 DEF ControlsInv, ControlsTyped, Values
    <3>3. DeviceObserved' /\ GainOnItsWay'
      BY <2>1, <2>3, <3>1 DEF ControlsInv, DeviceObserved, GainOnItsWay, Values
    <3> QED
      BY <3>2, <3>3 DEF ControlsInv
  <2> QED
    BY <2>2, <2>3
<1>4. ASSUME ReadValue PROVE ControlsInv'
  <2>1. /\ refresh.step \in Values
        /\ UNCHANGED <<outputGain, outputMute, setter, sets, device, reloads, notices, observed,
                       ownerQueue, tapGain, tapFailed, tapStopped>>
    BY <1>4 DEF ReadValue
  <2>2. CASE observed # device
    <3>1. refresh'.step = "apply" /\ refresh'.gain = Zero
      BY <1>4, <2>2 DEF ReadValue, NoRefresh
    <3>2. ControlsTyped'
      BY <1>0, <2>1, <3>1 DEF ControlsInv, ControlsTyped, Values
    <3>3. DeviceObserved' /\ GainOnItsWay'
      BY <2>1, <2>2, <3>1 DEF ControlsInv, DeviceObserved, GainOnItsWay, Values
    <3> QED
      BY <3>2, <3>3 DEF ControlsInv
  <2>3. CASE observed = device
    <3>1. /\ refresh'.step = FollowedBy(refresh.step)
          /\ refresh'.gain = IF refresh.step = "gain" THEN outputGain
                             ELSE IF refresh.step = "mute" /\ outputMute # 0 THEN Zero ELSE refresh.gain
      BY <1>4, <2>3 DEF ReadValue
    <3>2. refresh'.step \in {"mute", "channels", "apply"} /\ refresh'.gain \in GainLevels
      BY <1>0, <2>1, <3>1 DEF FollowedBy, Values
    <3>3. ControlsTyped'
      BY <2>1, <3>2 DEF ControlsInv, ControlsTyped, Values
    <3>4. DeviceObserved'
      BY <2>1, <3>2 DEF ControlsInv, DeviceObserved, Values
    <3>5. GainOnItsWay'
      BY <2>1, <2>3, <3>1
        DEF ControlsInv, DeviceObserved, GainOnItsWay, DeviceGain, FollowedBy, Values
    <3> QED
      BY <3>3, <3>4, <3>5 DEF ControlsInv
  <2> QED
    BY <2>2, <2>3
<1>5. ASSUME DispatchGain PROVE ControlsInv'
  <2>1. /\ refresh.step = "apply" /\ ownerQueue' = Append(ownerQueue, refresh.gain)
        /\ refresh' = NoRefresh
        /\ UNCHANGED <<outputGain, outputMute, setter, sets, device, reloads, notices, observed,
                       tapGain, tapFailed, tapStopped>>
    BY <1>5 DEF DispatchGain
  <2>2. ownerQueue' \in Seq(GainLevels) /\ LastGain' = refresh.gain
    BY <1>0, <1>1, <2>1
  <2>3. ControlsTyped'
    BY <1>0, <2>1, <2>2 DEF ControlsInv, ControlsTyped
  <2>4. DeviceObserved' /\ GainOnItsWay'
    BY <1>0, <2>1, <2>2 DEF ControlsInv, DeviceObserved, GainOnItsWay, DeviceGain, Values
  <2> QED
    BY <2>3, <2>4 DEF ControlsInv
<1>6. ASSUME ApplyGain PROVE ControlsInv'
  <2>1. /\ ownerQueue # <<>> /\ tapGain' = (IF tapStopped THEN tapGain ELSE Head(ownerQueue))
        /\ ownerQueue' = Tail(ownerQueue)
        /\ UNCHANGED <<outputGain, outputMute, setter, sets, device, reloads, notices, observed,
                       refresh, tapFailed, tapStopped>>
    BY <1>6 DEF ApplyGain
  <2>2. /\ Head(ownerQueue) = ownerQueue[1] /\ Head(ownerQueue) \in GainLevels
        /\ Tail(ownerQueue) \in Seq(GainLevels) /\ Len(Tail(ownerQueue)) = Len(ownerQueue) - 1
        /\ \A i \in 1..Len(Tail(ownerQueue)) : Tail(ownerQueue)[i] = ownerQueue[i + 1]
    BY <1>0, <2>1, HeadTailProperties
  <2>3. ~tapStopped => LastGain' = LastGain
    <3>1. SUFFICES ASSUME ~tapStopped PROVE LastGain' = ownerQueue[Len(ownerQueue)]
      BY <2>1 DEF LastGain
    <3>2. CASE Len(ownerQueue) = 1
      <4>1. ownerQueue' = <<>>
        BY <2>1, <2>2, <3>2, EmptySeq
      <4> QED
        BY <2>1, <2>2, <3>1, <3>2, <4>1 DEF LastGain
    <3>3. CASE Len(ownerQueue) # 1
      <4>1. Len(ownerQueue) # 0
        BY <1>0, <2>1, EmptySeq
      <4>2. /\ Len(ownerQueue') \in 1..Len(ownerQueue') /\ Len(ownerQueue') # 0
            /\ Len(ownerQueue') + 1 = Len(ownerQueue)
        BY <1>0, <2>1, <2>2, <3>3, <4>1
      <4>3. ownerQueue' # <<>>
        BY <2>1, <2>2, <4>2, EmptySeq
      <4>4. ownerQueue'[Len(ownerQueue')] = ownerQueue[Len(ownerQueue') + 1]
        BY <2>1, <2>2, <4>2
      <4> QED
        BY <4>2, <4>3, <4>4 DEF LastGain
    <3> QED
      BY <3>2, <3>3
  <2>4. ControlsTyped'
    BY <2>1, <2>2 DEF ControlsInv, ControlsTyped
  <2>5. DeviceGain' = DeviceGain
    BY <2>1 DEF DeviceGain
  <2>6. DeviceObserved' /\ GainOnItsWay'
    BY <2>1, <2>3, <2>5 DEF ControlsInv, DeviceObserved, GainOnItsWay
  <2> QED
    BY <2>4, <2>6 DEF ControlsInv
<1> QED
  BY <1>2, <1>3, <1>4, <1>5, <1>6

LEMMA ControlsInvariant == AudioControlsSpec => []ControlsInv
<1>1. ControlsInv /\ [AudioControlsNext]_audioControlsVars => ControlsInv'
  <2> SUFFICES ASSUME ControlsInv, [AudioControlsNext]_audioControlsVars PROVE ControlsInv'
    OBVIOUS
  <2>1. CASE UNCHANGED audioControlsVars
    BY <2>1
      DEF audioControlsVars, ControlsInv, ControlsTyped, DeviceObserved, GainOnItsWay, LastGain,
          DeviceGain
  <2>2. CASE AudioControlsNext
    BY <2>2, SettersKeepControls, DriverKeepsControls, TapKeepsControls DEF AudioControlsNext
  <2> QED
    BY <2>1, <2>2
<1> QED
  BY <1>1, ControlsInitHolds, PTL DEF AudioControlsSpec

\* However the threads that set volume and mute interleave with the listeners, the two
\* queues and restarts of the driver, a stream that has come to rest plays at the gain of
\* the device, for any number of threads and any levels.
THEOREM GainFollows == AudioControlsSpec => []TapGainFollows
<1>1. ControlsInv => TapGainFollows
  <2> SUFFICES ASSUME ControlsInv PROVE TapGainFollows
    OBVIOUS
  <2>1. tapGain <= Unity
    BY DEF ControlsInv, ControlsTyped, GainLevels, Zero, Unity
  <2>2. ASSUME \A t \in Setters : setter[t] = "idle", notices = 0, refresh = NoRefresh,
               ownerQueue = <<>>, ~tapStopped
        PROVE  /\ tapGain = IF device # 0 /\ outputMute = 0 THEN outputGain ELSE Zero
               /\ observed = device /\ (device = 0 => tapFailed)
    <3>1. refresh.step = "idle"
      BY <2>2 DEF NoRefresh
    <3>2. LastGain = DeviceGain
      BY <2>2, <3>1 DEF ControlsInv, GainOnItsWay
    <3>3. observed = device /\ (observed = 0 => tapFailed)
      BY <2>2 DEF ControlsInv, DeviceObserved
    <3> QED
      BY <2>2, <3>2, <3>3 DEF LastGain, DeviceGain
  <2> QED
    BY <2>1, <2>2 DEF TapGainFollows
<1> QED
  BY <1>1, ControlsInvariant, PTL

(***************************************************************************)
(* AudioDriver                                                             *)
(***************************************************************************)

SlotStates == [id : ClientIds \cup {0}, running : BOOLEAN]
RunningSlots == {i \in 1..TableSlots : clients[i].running}
Restarting == change.step \in {"reset", "anchor", "seed"}

\* The count lags behind the table by the start that holds the lock.
TableCounted ==
  /\ Cardinality(RunningSlots) = IF change.step = "none" THEN running ELSE running + 1
  /\ Restarting => running = 0
  /\ change.step = "none" <=> change = Unlocked
  /\ \A i \in 1..TableSlots : clients[i].id = 0 => ~clients[i].running

\* An IO thread runs only for a running client, and never while the clock restarts.
ThreadsRun ==
  /\ \A c \in ClientIds : ioThread[c].on => \E i \in 1..TableSlots : clients[i].id = c /\ clients[i].running
  /\ change.step # "none" =>
       /\ change.id \in ClientIds
       /\ \E i \in 1..TableSlots : clients[i].id = change.id /\ clients[i].running
  /\ Restarting => \A c \in ClientIds : ~ioThread[c].on
  /\ \A c \in ClientIds : ioThread[c].base # 0 => ioThread[c].on /\ ioThread[c].base = anchor

\* The timestamps of the seed in force are counted from the anchor in force.
StampsAnchored ==
  /\ anchor <= periods
  /\ ~hosted => stamps = {} /\ change.step = "none" /\ \A c \in ClientIds : ~ioThread[c].on
  /\ \A s \in stamps : s.seed <= clockSeed /\ s.base <= anchor
  /\ change.step # "seed" => \A s \in stamps : s.seed = clockSeed => s.base = anchor
  /\ \A s, t \in stamps : s.seed <= t.seed => s.base <= t.base

BufferFollows ==
  driver = "microphone" =>
    bufferResets = IF change.step \in {"anchor", "seed"} THEN clockSeed + 1 ELSE clockSeed

DriverInv == AudioDriverTypeOK /\ TableCounted /\ ThreadsRun /\ StampsAnchored /\ BufferFollows

\* A set of naturals that is not empty has a least element.
LEMMA LeastNatural ==
  ASSUME NEW T, T \subseteq Nat, T # {}
  PROVE  \E x \in T : \A y \in T : x <= y
<1> DEFINE R == OpToRel(<, Nat)
<1>1. IsWellFoundedOn(R, Nat)
  BY NatLessThanWellFounded, Zenon
<1>2. \A y \in Nat, x \in Nat : y < x => <<y, x>> \in R
  BY DEF OpToRel
<1> HIDE DEF R
<1>3. PICK x \in T : \A y \in T : ~ (<<y, x>> \in R)
  BY <1>1, WFMin
<1>4. \A y \in T : x \in Nat /\ y \in Nat /\ ~(y < x)
  BY <1>2, <1>3
<1>5. \A y \in T : x <= y
  BY <1>4
<1> QED
  BY <1>5

LEMMA TableFacts ==
  ASSUME DriverInv
  PROVE  /\ TableSlots \in Nat /\ 0 \notin ClientIds /\ IsFiniteSet(1..TableSlots)
         /\ IsFiniteSet(RunningSlots) /\ Cardinality(RunningSlots) \in Nat /\ running \in Nat
         /\ Cardinality(RunningSlots) = 0 => RunningSlots = {}
         /\ clients \in [1..TableSlots -> SlotStates]
<1>1. TableSlots \in Nat /\ 0 \notin ClientIds
  BY AudioDriverAssumption
<1>2. IsFiniteSet(1..TableSlots)
  BY <1>1, FS_Interval
<1>3. IsFiniteSet(RunningSlots) /\ Cardinality(RunningSlots) \in Nat
      /\ (Cardinality(RunningSlots) = 0 => RunningSlots = {})
  <2>1. RunningSlots \in SUBSET (1..TableSlots)
    BY DEF RunningSlots
  <2>2. IsFiniteSet(RunningSlots)
    BY <1>2, <2>1, FS_Subset
  <2> QED
    BY <2>2, FS_CardinalityType, FS_EmptySet
<1>4. running \in Nat /\ clients \in [1..TableSlots -> SlotStates]
  BY DEF DriverInv, AudioDriverTypeOK, SlotStates
<1> QED
  BY <1>1, <1>2, <1>3, <1>4

LEMMA DriverInitHolds == AudioDriverInit => DriverInv
<1> SUFFICES ASSUME AudioDriverInit PROVE DriverInv
  OBVIOUS
<1>1. AudioDriverTypeOK
  BY DEF AudioDriverInit, AudioDriverTypeOK, Unlocked
<1>2. TableCounted
  <2>1. RunningSlots = {} /\ change.step = "none" /\ change = Unlocked /\ running = 0
    BY DEF AudioDriverInit, RunningSlots, Unlocked
  <2>2. Cardinality(RunningSlots) = 0
    BY <2>1, FS_EmptySet
  <2> QED
    BY <2>1, <2>2 DEF AudioDriverInit, TableCounted, Restarting
<1>3. ThreadsRun /\ StampsAnchored /\ BufferFollows
  BY DEF AudioDriverInit, ThreadsRun, StampsAnchored, BufferFollows, Restarting, Unlocked
<1> QED
  BY <1>1, <1>2, <1>3 DEF DriverInv

\* changeIO(start): the table is ahead of the count by one, and the first start finds no
\* IO thread.
LEMMA StartKeepsDriver ==
  ASSUME DriverInv, NEW id \in ClientIds, StartIO(id) \/ StartMicrophoneIO(id)
  PROVE  DriverInv'
<1>1. PICK i \in SlotsOf(id) : ~clients[i].running /\ clients' = [clients EXCEPT ![i].running = TRUE]
  BY DEF StartIO, StartMicrophoneIO
<1>2. /\ hosted /\ change = Unlocked /\ change'.id = id /\ change'.step \in {"reset", "anchor", "count"}
      /\ change' \in [step : {"none", "reset", "anchor", "seed", "count"}, id : ClientIds \cup {0}]
      /\ change'.step # "count" => running = 0
      /\ driver = "microphone" => change'.step # "anchor"
      /\ UNCHANGED <<driver, bufferResets, hosted, running, anchor, clockSeed, ioThread, stamps, periods>>
  BY DEF StartIO, StartMicrophoneIO
<1>3. i \in 1..TableSlots /\ clients[i].id = id
  BY <1>1 DEF SlotsOf
<1>4. change.step = "none" /\ Cardinality(RunningSlots) = running
  BY <1>2 DEF DriverInv, TableCounted, Unlocked
<1> DEFINE r == [clients[i] EXCEPT !.running = TRUE]
<1>5. r \in SlotStates /\ r.id = id /\ r.running /\ clients' = [clients EXCEPT ![i] = r]
  BY <1>1, <1>3, TableFacts DEF SlotStates
<1> HIDE DEF r
<1>6. /\ clients' \in [1..TableSlots -> SlotStates] /\ clients'[i] = r
      /\ \A j \in 1..TableSlots : j # i => clients'[j] = clients[j]
  BY <1>3, <1>5, TableFacts
<1>7. AudioDriverTypeOK'
  BY <1>2, <1>6 DEF DriverInv, AudioDriverTypeOK, SlotStates
<1>8. TableCounted'
  <2>1. RunningSlots' = RunningSlots \cup {i} /\ i \notin RunningSlots
    BY <1>1, <1>3, <1>5, <1>6 DEF RunningSlots
  <2>2. Cardinality(RunningSlots') = running + 1
    BY <1>4, <2>1, TableFacts, FS_AddElement
  <2>3. \A j \in 1..TableSlots : clients'[j].id = 0 => ~clients'[j].running
    BY <1>5, <1>6, TableFacts DEF DriverInv, TableCounted
  <2>4. change'.step # "none" /\ change' # Unlocked
    BY <1>2 DEF Unlocked
  <2> QED
    BY <1>2, <2>2, <2>3, <2>4 DEF TableCounted, Restarting
<1>9. ThreadsRun'
  <2>1. ASSUME NEW c \in ClientIds, ioThread'[c].on
        PROVE  \E j \in 1..TableSlots : clients'[j].id = c /\ clients'[j].running
    <3>1. PICK j \in 1..TableSlots : clients[j].id = c /\ clients[j].running
      BY <1>2, <2>1 DEF DriverInv, ThreadsRun
    <3> QED
      BY <1>1, <1>6, <3>1
  <2>2. change'.step # "count" => \A c \in ClientIds : ~ioThread[c].on
    <3>1. SUFFICES ASSUME running = 0 PROVE \A c \in ClientIds : ~ioThread[c].on
      BY <1>2
    <3>2. RunningSlots = {}
      BY <1>4, <3>1, TableFacts
    <3> QED
      BY <3>2 DEF DriverInv, ThreadsRun, RunningSlots
  <2>3. \A c \in ClientIds : ioThread'[c].base # 0 => ioThread'[c].on /\ ioThread'[c].base = anchor'
    BY <1>2 DEF DriverInv, ThreadsRun
  <2>4. change'.id \in ClientIds /\ clients'[i].id = change'.id /\ clients'[i].running
    BY <1>2, <1>5, <1>6
  <2>5. Restarting' => \A c \in ClientIds : ~ioThread'[c].on
    BY <1>2, <2>2 DEF Restarting
  <2> QED
    BY <1>3, <2>1, <2>3, <2>4, <2>5 DEF ThreadsRun
<1>10. StampsAnchored'
  BY <1>2, <1>4 DEF DriverInv, StampsAnchored
<1>11. BufferFollows'
  BY <1>2, <1>4 DEF DriverInv, BufferFollows
<1> QED
  BY <1>7, <1>8, <1>9, <1>10, <1>11 DEF DriverInv

\* changeIO(stop) and removeClient: their client's IO thread has ended before.
LEMMA StopKeepsDriver ==
  ASSUME DriverInv, NEW id \in ClientIds, StopIO(id) \/ RemoveClient(id)
  PROVE  DriverInv'
<1> DEFINE Threads == [on : BOOLEAN, base : Nat]
<1>1. /\ hosted /\ change = Unlocked /\ ioThread[id].base = 0
      /\ ioThread' = [ioThread EXCEPT ![id].on = FALSE]
      /\ UNCHANGED <<driver, bufferResets, hosted, anchor, clockSeed, change, stamps, periods>>
  BY DEF StopIO, RemoveClient
<1>2. change.step = "none" /\ Cardinality(RunningSlots) = running
  BY <1>1 DEF DriverInv, TableCounted, Unlocked
<1>3. /\ ioThread' \in [ClientIds -> Threads] /\ ~ioThread'[id].on /\ ioThread'[id].base = 0
      /\ \A c \in ClientIds : c # id => ioThread'[c] = ioThread[c]
  <2>1. ioThread \in [ClientIds -> Threads]
    BY DEF DriverInv, AudioDriverTypeOK
  <2> QED
    BY <1>1, <2>1
\* The table keeps its other running clients, and the count follows.
<1>4. /\ clients' \in [1..TableSlots -> SlotStates] /\ running' \in Nat
      /\ Cardinality(RunningSlots') = running'
      /\ \A j \in 1..TableSlots : clients'[j].id = 0 => ~clients'[j].running
      /\ \A j \in 1..TableSlots : clients[j].running /\ clients[j].id # id =>
                                    clients'[j].running /\ clients'[j].id = clients[j].id
  <2>1. CASE StopIO(id)
    <3>1. PICK i \in SlotsOf(id) : clients[i].running /\ clients' = [clients EXCEPT ![i].running = FALSE]
      BY <2>1 DEF StopIO
    <3>2. i \in 1..TableSlots /\ clients[i].id = id /\ running' = running - 1
      BY <2>1, <3>1 DEF SlotsOf, StopIO
    <3> DEFINE r == [clients[i] EXCEPT !.running = FALSE]
    <3>3. r \in SlotStates /\ r.id = id /\ ~r.running /\ clients' = [clients EXCEPT ![i] = r]
      BY <3>1, <3>2, TableFacts DEF SlotStates
    <3> HIDE DEF r
    <3>4. /\ clients' \in [1..TableSlots -> SlotStates] /\ clients'[i] = r
          /\ \A j \in 1..TableSlots : j # i => clients'[j] = clients[j]
      BY <3>2, <3>3, TableFacts
    <3>5. RunningSlots' = RunningSlots \ {i} /\ i \in RunningSlots
      BY <3>1, <3>2, <3>3, <3>4 DEF RunningSlots
    <3>6. Cardinality(RunningSlots') = running - 1 /\ IsFiniteSet(RunningSlots')
      BY <1>2, <3>5, TableFacts, FS_RemoveElement
    <3>7. running' \in Nat
      BY <3>2, <3>6, FS_CardinalityType
    <3>8. \A j \in 1..TableSlots : clients'[j].id = 0 => ~clients'[j].running
      BY <3>3, <3>4 DEF DriverInv, TableCounted
    <3> QED
      BY <3>2, <3>4, <3>6, <3>7, <3>8
  <2>2. CASE RemoveClient(id)
    <3> DEFINE X == SlotsOf(id)
               none == [id |-> 0, running |-> FALSE]
    <3>1. /\ clients' = [j \in 1..TableSlots |-> IF j \in X THEN none ELSE clients[j]]
          /\ running' = running - Cardinality({j \in X : clients[j].running})
      BY <2>2 DEF RemoveClient
    <3>2. none \in SlotStates /\ ~none.running /\ none.id = 0
      BY DEF SlotStates
    <3> HIDE DEF none
    <3>3. /\ clients' \in [1..TableSlots -> SlotStates]
          /\ \A j \in 1..TableSlots : clients'[j] = IF j \in X THEN none ELSE clients[j]
      BY <3>1, <3>2, TableFacts
    <3>4. RunningSlots' = RunningSlots \ X /\ {j \in X : clients[j].running} = RunningSlots \cap X
      BY <3>2, <3>3 DEF RunningSlots, SlotsOf
    <3> HIDE DEF X
    <3>5. /\ IsFiniteSet(RunningSlots')
          /\ Cardinality(RunningSlots') = Cardinality(RunningSlots) - Cardinality(RunningSlots \cap X)
      BY <3>4, TableFacts, FS_Difference
    <3>6. Cardinality(RunningSlots') = running' /\ running' \in Nat
      BY <1>2, <3>1, <3>4, <3>5, FS_CardinalityType
    <3>7. \A j \in 1..TableSlots : clients'[j].id = 0 => ~clients'[j].running
      BY <3>2, <3>3 DEF DriverInv, TableCounted
    <3>8. \A j \in 1..TableSlots : clients[j].running /\ clients[j].id # id =>
                                     clients'[j].running /\ clients'[j].id = clients[j].id
      BY <3>3 DEF X, SlotsOf
    <3> QED
      BY <3>3, <3>6, <3>7, <3>8
  <2> QED
    BY <2>1, <2>2
<1>5. AudioDriverTypeOK'
  BY <1>1, <1>3, <1>4 DEF DriverInv, AudioDriverTypeOK, SlotStates
<1> HIDE DEF Threads
<1>6. TableCounted'
  BY <1>1, <1>2, <1>4 DEF DriverInv, TableCounted, Restarting
<1>7. ThreadsRun'
  <2>1. ASSUME NEW c \in ClientIds, ioThread'[c].on
        PROVE  \E j \in 1..TableSlots : clients'[j].id = c /\ clients'[j].running
    <3>1. c # id /\ ioThread[c].on
      BY <1>3, <2>1
    <3>2. PICK j \in 1..TableSlots : clients[j].id = c /\ clients[j].running
      BY <3>1 DEF DriverInv, ThreadsRun
    <3> QED
      BY <1>4, <3>1, <3>2
  <2>2. \A c \in ClientIds : ioThread'[c].base # 0 => ioThread'[c].on /\ ioThread'[c].base = anchor'
    BY <1>1, <1>3 DEF DriverInv, ThreadsRun
  <2> QED
    BY <1>1, <1>2, <2>1, <2>2 DEF ThreadsRun, Restarting
<1>8. StampsAnchored' /\ BufferFollows'
  BY <1>1, <1>2 DEF DriverInv, StampsAnchored, BufferFollows
<1> QED
  BY <1>5, <1>6, <1>7, <1>8 DEF DriverInv

\* initialize: nothing has been handed out before the first host.
LEMMA InitializeKeepsDriver ==
  ASSUME DriverInv, InitializeDriver \/ InitializeMicrophone PROVE DriverInv'
<1>0. /\ driver \in {"output", "microphone"} /\ hosted \in BOOLEAN /\ anchor \in Nat
      /\ clockSeed \in Nat /\ periods \in Nat /\ bufferResets \in Nat
  BY DEF DriverInv, AudioDriverTypeOK
<1>1. /\ change = Unlocked /\ hosted' = TRUE
      /\ anchor' = (IF hosted THEN anchor ELSE periods)
      /\ clockSeed' = (IF hosted THEN clockSeed ELSE 1)
      /\ UNCHANGED <<driver, clients, running, change, ioThread, stamps, periods>>
  BY DEF InitializeDriver, InitializeMicrophone
<1>2. /\ bufferResets' \in Nat
      /\ driver = "microphone" => bufferResets' = (IF hosted THEN bufferResets ELSE 1)
  BY <1>0 DEF InitializeDriver, InitializeMicrophone
<1>3. anchor' \in Nat /\ clockSeed' \in Nat /\ change.step = "none"
  BY <1>0, <1>1 DEF Unlocked
<1>4. AudioDriverTypeOK'
  BY <1>0, <1>1, <1>2, <1>3 DEF DriverInv, AudioDriverTypeOK
<1>5. TableCounted'
  BY <1>1 DEF DriverInv, TableCounted, RunningSlots, Restarting
<1>6. CASE hosted
  <2>1. ThreadsRun' /\ StampsAnchored' /\ BufferFollows'
    BY <1>1, <1>2, <1>6 DEF DriverInv, ThreadsRun, StampsAnchored, BufferFollows, Restarting
  <2> QED
    BY <1>4, <1>5, <2>1 DEF DriverInv
<1>7. CASE ~hosted
  <2>1. stamps = {} /\ \A c \in ClientIds : ~ioThread[c].on
    BY <1>7 DEF DriverInv, StampsAnchored
  <2>2. ThreadsRun'
    BY <1>1, <1>3, <2>1 DEF DriverInv, ThreadsRun, Restarting
  <2>3. StampsAnchored'
    BY <1>0, <1>1, <1>3, <1>7, <2>1 DEF StampsAnchored
  <2>4. BufferFollows'
    BY <1>1, <1>2, <1>3, <1>7 DEF BufferFollows
  <2> QED
    BY <1>4, <1>5, <2>2, <2>3, <2>4 DEF DriverInv
<1> QED
  BY <1>0, <1>6, <1>7

\* addClient fills a free slot, which is not running.
LEMMA AddKeepsDriver ==
  ASSUME DriverInv, NEW id \in ClientIds, AddClient(id) PROVE DriverInv'
<1>1. /\ change = Unlocked
      /\ UNCHANGED <<driver, bufferResets, hosted, running, anchor, clockSeed, change, ioThread,
                     stamps, periods>>
  BY DEF AddClient
<1>2. CASE SlotsOf(id) # {} \/ SlotsOf(0) = {}
  <2>1. clients' = clients
    BY <1>2 DEF AddClient
  <2> QED
    BY <1>1, <2>1
      DEF DriverInv, AudioDriverTypeOK, TableCounted, RunningSlots, ThreadsRun, StampsAnchored,
          BufferFollows, Restarting
<1>3. CASE ~(SlotsOf(id) # {} \/ SlotsOf(0) = {})
  <2> DEFINE i == Lowest(SlotsOf(0))
             r == [id |-> id, running |-> FALSE]
  <2>1. clients' = [clients EXCEPT ![i] = r]
    BY <1>3 DEF AddClient
  <2>2. i \in SlotsOf(0)
    <3>1. SlotsOf(0) \subseteq Nat
      BY DEF SlotsOf
    <3>2. \E x \in SlotsOf(0) : \A y \in SlotsOf(0) : x <= y
      BY <1>3, <3>1, LeastNatural
    <3> QED
      BY <3>2 DEF Lowest
  <2>3. r \in SlotStates /\ r.id = id /\ ~r.running
    BY DEF SlotStates
  <2> HIDE DEF i, r
  <2>4. i \in 1..TableSlots /\ clients[i].id = 0 /\ ~clients[i].running
    BY <2>2 DEF SlotsOf, DriverInv, TableCounted
  <2>5. /\ clients' \in [1..TableSlots -> SlotStates] /\ clients'[i] = r
        /\ \A j \in 1..TableSlots : j # i => clients'[j] = clients[j]
    BY <2>1, <2>3, <2>4, TableFacts
  <2>6. RunningSlots' = RunningSlots
    BY <2>3, <2>4, <2>5 DEF RunningSlots
  <2>7. AudioDriverTypeOK'
    BY <1>1, <2>5 DEF DriverInv, AudioDriverTypeOK, SlotStates
  <2>8. TableCounted'
    BY <1>1, <2>3, <2>5, <2>6 DEF DriverInv, TableCounted, Restarting
  <2>9. ThreadsRun'
    <3>1. ASSUME NEW c \in ClientIds, ioThread'[c].on
          PROVE  \E j \in 1..TableSlots : clients'[j].id = c /\ clients'[j].running
      <4>1. PICK j \in 1..TableSlots : clients[j].id = c /\ clients[j].running
        BY <1>1, <3>1 DEF DriverInv, ThreadsRun
      <4> QED
        BY <2>4, <2>5, <4>1
    <3>2. change'.step = "none"
      BY <1>1 DEF Unlocked
    <3> QED
      BY <1>1, <3>1, <3>2 DEF DriverInv, ThreadsRun, Restarting
  <2>10. StampsAnchored' /\ BufferFollows'
    BY <1>1 DEF DriverInv, StampsAnchored, BufferFollows
  <2> QED
    BY <2>7, <2>8, <2>9, <2>10 DEF DriverInv
<1> QED
  BY <1>2, <1>3

\* The rest of a start, under the lock: the buffer, the anchor, the seed, the count.
LEMMA RestartKeepsDriver ==
  ASSUME DriverInv, ResetMicrophoneBuffer \/ StoreAnchor \/ AddSeed \/ CountRunning
  PROVE  DriverInv'
<1> DEFINE Changes == [step : {"none", "reset", "anchor", "seed", "count"}, id : ClientIds \cup {0}]
<1>0. /\ change \in Changes /\ bufferResets \in Nat /\ anchor \in Nat /\ clockSeed \in Nat
      /\ periods \in Nat /\ running \in Nat /\ driver \in {"output", "microphone"}
  BY DEF DriverInv, AudioDriverTypeOK
\* The step of the change alone tells how far it is.
<1>1. ASSUME NEW to \in {"anchor", "seed", "count"}, change' = [change EXCEPT !.step = to]
      PROVE  /\ change' \in Changes /\ change'.step = to /\ change'.id = change.id
             /\ change' # Unlocked
  <2>1. change' \in Changes /\ change'.step = to /\ change'.id = change.id
    BY <1>0, <1>1
  <2> QED
    BY <2>1 DEF Unlocked
<1>2. ASSUME ResetMicrophoneBuffer PROVE DriverInv'
  <2>1. /\ change.step = "reset" /\ change' = [change EXCEPT !.step = "anchor"]
        /\ bufferResets' = bufferResets + 1
        /\ UNCHANGED <<driver, hosted, clients, running, anchor, clockSeed, ioThread, stamps, periods>>
    BY <1>2 DEF ResetMicrophoneBuffer
  <2>2. change' \in Changes /\ change'.step = "anchor" /\ change'.id = change.id /\ change' # Unlocked
    BY <1>1, <2>1
  <2>3. AudioDriverTypeOK'
    BY <1>0, <2>1, <2>2 DEF DriverInv, AudioDriverTypeOK
  <2> HIDE DEF Changes
  <2>4. TableCounted'
    BY <2>1, <2>2 DEF DriverInv, TableCounted, RunningSlots, Restarting
  <2>5. ThreadsRun'
    BY <2>1, <2>2 DEF DriverInv, ThreadsRun, Restarting
  <2>6. StampsAnchored' /\ BufferFollows'
    BY <2>1, <2>2 DEF DriverInv, StampsAnchored, BufferFollows
  <2> QED
    BY <2>3, <2>4, <2>5, <2>6 DEF DriverInv
<1>3. ASSUME StoreAnchor PROVE DriverInv'
  <2>1. /\ change.step = "anchor" /\ change' = [change EXCEPT !.step = "seed"] /\ anchor' = periods
        /\ UNCHANGED <<driver, bufferResets, hosted, clients, running, clockSeed, ioThread, stamps,
                       periods>>
    BY <1>3 DEF StoreAnchor
  <2>2. change' \in Changes /\ change'.step = "seed" /\ change'.id = change.id /\ change' # Unlocked
    BY <1>1, <2>1
  <2>3. AudioDriverTypeOK'
    BY <1>0, <2>1, <2>2 DEF DriverInv, AudioDriverTypeOK
  <2> HIDE DEF Changes
  <2>4. TableCounted'
    BY <2>1, <2>2 DEF DriverInv, TableCounted, RunningSlots, Restarting
  <2>5. ThreadsRun'
    <3>1. \A c \in ClientIds : ~ioThread[c].on /\ ioThread[c].base = 0
      BY <2>1 DEF DriverInv, ThreadsRun, Restarting
    <3> QED
      BY <2>1, <2>2, <3>1 DEF DriverInv, ThreadsRun, Restarting
  <2>6. StampsAnchored'
    <3>1. \A s \in stamps : s.seed \in Nat /\ s.base \in Nat
      BY DEF DriverInv, AudioDriverTypeOK
    <3>2. \A s \in stamps : s.base <= periods
      BY <1>0, <3>1 DEF DriverInv, StampsAnchored
    <3> QED
      BY <1>0, <2>1, <2>2, <3>2 DEF DriverInv, StampsAnchored
  <2>7. BufferFollows'
    BY <2>1, <2>2 DEF DriverInv, BufferFollows
  <2> QED
    BY <2>3, <2>4, <2>5, <2>6, <2>7 DEF DriverInv
<1>4. ASSUME AddSeed PROVE DriverInv'
  <2>1. /\ change.step = "seed" /\ change' = [change EXCEPT !.step = "count"]
        /\ clockSeed' = clockSeed + 1
        /\ UNCHANGED <<driver, bufferResets, hosted, clients, running, anchor, ioThread, stamps, periods>>
    BY <1>4 DEF AddSeed
  <2>2. change' \in Changes /\ change'.step = "count" /\ change'.id = change.id /\ change' # Unlocked
    BY <1>1, <2>1
  <2>3. AudioDriverTypeOK'
    BY <1>0, <2>1, <2>2 DEF DriverInv, AudioDriverTypeOK
  <2> HIDE DEF Changes
  <2>4. TableCounted'
    BY <2>1, <2>2 DEF DriverInv, TableCounted, RunningSlots, Restarting
  <2>5. ThreadsRun'
    BY <2>1, <2>2 DEF DriverInv, ThreadsRun, Restarting
  <2>6. StampsAnchored'
    <3>1. \A s \in stamps : s.seed \in Nat
      BY DEF DriverInv, AudioDriverTypeOK
    <3>2. \A s \in stamps : s.seed <= clockSeed + 1 /\ s.seed # clockSeed + 1
      BY <1>0, <3>1 DEF DriverInv, StampsAnchored
    <3> QED
      BY <2>1, <2>2, <3>2 DEF DriverInv, StampsAnchored
  <2>7. BufferFollows'
    BY <2>1, <2>2 DEF DriverInv, BufferFollows
  <2> QED
    BY <2>3, <2>4, <2>5, <2>6, <2>7 DEF DriverInv
<1>5. ASSUME CountRunning PROVE DriverInv'
  <2>1. /\ change.step = "count" /\ change' = Unlocked /\ running' = running + 1
        /\ ioThread' = [ioThread EXCEPT ![change.id].on = TRUE]
        /\ UNCHANGED <<driver, bufferResets, hosted, clients, anchor, clockSeed, stamps, periods>>
    BY <1>5 DEF CountRunning
  <2>2. change' \in Changes /\ change'.step = "none"
    BY <2>1 DEF Unlocked
  <2>3. change.id \in ClientIds /\ ioThread \in [ClientIds -> [on : BOOLEAN, base : Nat]]
    BY <2>1 DEF DriverInv, ThreadsRun, AudioDriverTypeOK
  <2>4. /\ ioThread' \in [ClientIds -> [on : BOOLEAN, base : Nat]]
        /\ ioThread'[change.id].base = ioThread[change.id].base /\ ioThread'[change.id].on
        /\ \A c \in ClientIds : c # change.id => ioThread'[c] = ioThread[c]
    BY <2>1, <2>3
  <2>5. AudioDriverTypeOK'
    BY <1>0, <2>1, <2>2, <2>4 DEF DriverInv, AudioDriverTypeOK
  <2> HIDE DEF Changes
  <2>6. TableCounted'
    BY <1>0, <2>1, <2>2 DEF DriverInv, TableCounted, RunningSlots, Restarting
  <2>7. ThreadsRun'
    BY <2>1, <2>2, <2>4 DEF DriverInv, ThreadsRun, Restarting
  <2>8. StampsAnchored' /\ BufferFollows'
    BY <2>1, <2>2, <2>4 DEF DriverInv, StampsAnchored, BufferFollows
  <2> QED
    BY <2>5, <2>6, <2>7, <2>8 DEF DriverInv
<1> QED
  BY <1>2, <1>3, <1>4, <1>5

\* The IO threads read the anchor and the seed without the lock, and time passes.
LEMMA StampKeepsDriver ==
  ASSUME DriverInv,
         PeriodPasses \/ \E id \in ClientIds : TimestampAnchor(id) \/ TimestampSeed(id)
  PROVE  DriverInv'
<1> DEFINE Threads == [on : BOOLEAN, base : Nat]
<1>0. /\ ioThread \in [ClientIds -> Threads] /\ anchor \in Nat /\ periods \in Nat /\ clockSeed \in Nat
      /\ \A s \in stamps : s.seed \in Nat /\ s.base \in Nat
  BY DEF DriverInv, AudioDriverTypeOK
<1>1. ASSUME PeriodPasses PROVE DriverInv'
  <2>1. /\ periods' = periods + 1
        /\ UNCHANGED <<driver, bufferResets, hosted, clients, running, anchor, clockSeed, change,
                       ioThread, stamps>>
    BY <1>1 DEF PeriodPasses
  <2>2. AudioDriverTypeOK' /\ TableCounted' /\ ThreadsRun' /\ BufferFollows'
    BY <1>0, <2>1
      DEF DriverInv, AudioDriverTypeOK, TableCounted, RunningSlots, ThreadsRun, BufferFollows, Restarting
  <2>3. StampsAnchored'
    BY <1>0, <2>1 DEF DriverInv, StampsAnchored
  <2> QED
    BY <2>2, <2>3 DEF DriverInv
<1>2. ASSUME NEW id \in ClientIds, TimestampAnchor(id) PROVE DriverInv'
  <2>1. /\ ioThread[id].on /\ ioThread' = [ioThread EXCEPT ![id].base = anchor]
        /\ UNCHANGED <<driver, bufferResets, hosted, clients, running, anchor, clockSeed, change,
                       stamps, periods>>
    BY <1>2 DEF TimestampAnchor
  <2>2. /\ ioThread' \in [ClientIds -> Threads] /\ ioThread'[id].base = anchor /\ ioThread'[id].on
        /\ \A c \in ClientIds : c # id => ioThread'[c] = ioThread[c]
    BY <1>0, <2>1
  <2>3. AudioDriverTypeOK'
    BY <2>1, <2>2 DEF DriverInv, AudioDriverTypeOK
  <2> HIDE DEF Threads
  <2>4. \A c \in ClientIds : ioThread'[c].on => ioThread[c].on
    BY <2>1, <2>2
  <2>5. TableCounted' /\ BufferFollows'
    BY <2>1 DEF DriverInv, TableCounted, RunningSlots, BufferFollows, Restarting
  <2>6. ThreadsRun'
    BY <2>1, <2>2, <2>4 DEF DriverInv, ThreadsRun, Restarting
  <2>7. StampsAnchored'
    BY <2>1, <2>4 DEF DriverInv, StampsAnchored
  <2> QED
    BY <2>3, <2>5, <2>6, <2>7 DEF DriverInv
<1>3. ASSUME NEW id \in ClientIds, TimestampSeed(id) PROVE DriverInv'
  <2> DEFINE x == [seed |-> clockSeed, base |-> ioThread[id].base]
  <2>1. /\ ioThread[id].base # 0 /\ ioThread' = [ioThread EXCEPT ![id].base = 0]
        /\ stamps' = stamps \cup {x}
        /\ UNCHANGED <<driver, bufferResets, hosted, clients, running, anchor, clockSeed, change,
                       periods>>
    BY <1>3 DEF TimestampSeed
  <2>2. /\ ioThread' \in [ClientIds -> Threads] /\ ioThread'[id].base = 0
        /\ ioThread'[id].on = ioThread[id].on
        /\ \A c \in ClientIds : c # id => ioThread'[c] = ioThread[c]
    BY <1>0, <2>1
  <2>3. ioThread[id].on /\ ioThread[id].base = anchor /\ ~Restarting
    BY <2>1 DEF DriverInv, ThreadsRun
  <2>4. x.seed = clockSeed /\ x.base = anchor /\ x \in [seed : Nat, base : Nat]
    BY <1>0, <2>3
  <2> HIDE DEF x
  <2>5. AudioDriverTypeOK'
    BY <2>1, <2>2, <2>4 DEF DriverInv, AudioDriverTypeOK
  <2> HIDE DEF Threads
  <2>6. TableCounted' /\ BufferFollows'
    BY <2>1 DEF DriverInv, TableCounted, RunningSlots, BufferFollows, Restarting
  <2>7. ThreadsRun'
    BY <2>1, <2>2 DEF DriverInv, ThreadsRun, Restarting
  <2>8. StampsAnchored'
    <3>1. hosted /\ change.step # "seed"
      BY <1>3, <2>3 DEF DriverInv, StampsAnchored, Restarting
    <3>2. \A s \in stamps : s.seed <= clockSeed /\ s.base <= anchor /\ (s.seed = clockSeed => s.base = anchor)
      BY <3>1 DEF DriverInv, StampsAnchored
    <3>3. \A s \in stamps' : s.seed <= clockSeed /\ s.base <= anchor /\ (s.seed = clockSeed => s.base = anchor)
      BY <1>0, <2>1, <2>4, <3>2
    <3>4. ASSUME NEW s \in stamps', NEW u \in stamps', s.seed <= u.seed PROVE s.base <= u.base
      <4>1. CASE s \in stamps /\ u \in stamps
        BY <3>4, <4>1 DEF DriverInv, StampsAnchored
      <4>2. CASE u = x
        BY <2>4, <3>3, <4>2
      <4>3. CASE s = x /\ u \in stamps
        <5>1. u.seed = clockSeed
          BY <1>0, <2>4, <3>2, <3>4, <4>3
        <5> QED
          BY <1>0, <2>4, <3>2, <4>3, <5>1
      <4> QED
        BY <2>1, <4>1, <4>2, <4>3
    <3> QED
      BY <2>1, <3>1, <3>3, <3>4 DEF DriverInv, StampsAnchored
  <2> QED
    BY <2>5, <2>6, <2>7, <2>8 DEF DriverInv
<1> QED
  BY <1>1, <1>2, <1>3

LEMMA DriverInvariant == AudioDriverSpec => []DriverInv
<1>1. DriverInv /\ [AudioDriverNext]_audioDriverVars => DriverInv'
  <2> SUFFICES ASSUME DriverInv, [AudioDriverNext]_audioDriverVars PROVE DriverInv'
    OBVIOUS
  <2>1. CASE UNCHANGED audioDriverVars
    BY <2>1
      DEF audioDriverVars, DriverInv, AudioDriverTypeOK, TableCounted, RunningSlots, ThreadsRun,
          StampsAnchored, BufferFollows, Restarting
  <2>2. CASE AudioDriverNext
    BY <2>2, StartKeepsDriver, StopKeepsDriver, InitializeKeepsDriver, AddKeepsDriver,
       RestartKeepsDriver, StampKeepsDriver DEF AudioDriverNext
  <2> QED
    BY <2>1, <2>2
<1> QED
  BY <1>1, DriverInitHolds, PTL DEF AudioDriverSpec

\* For any clients, table size and number of restarts: although the IO threads read the
\* anchor and the seed without the lock, timestamps of one seed are counted from one anchor,
\* the count that decides a restart is the table's, and the microphone's buffer is emptied
\* once per seed and never under a running IO thread.
THEOREM ClockPerSeed == AudioDriverSpec => []OneClockPerSeed
<1>1. DriverInv => OneClockPerSeed
  <2> SUFFICES ASSUME DriverInv PROVE OneClockPerSeed
    OBVIOUS
  <2>1. RunningCounted
    BY DEF RunningCounted, DriverInv, TableCounted, RunningSlots
  <2>2. \A s, t \in stamps : s.seed <= t.seed => s.base <= t.base
    BY DEF DriverInv, StampsAnchored
  <2>3. change = Unlocked => change.step = "none"
    BY DEF Unlocked
  <2>4. driver = "microphone" =>
          /\ change = Unlocked => bufferResets = clockSeed
          /\ change.step \in {"reset", "anchor", "seed"} => \A c \in ClientIds : ~ioThread[c].on
    BY <2>3 DEF DriverInv, BufferFollows, ThreadsRun, Restarting
  <2> QED
    BY <2>1, <2>2, <2>4 DEF OneClockPerSeed
<1> QED
  BY <1>1, DriverInvariant, PTL

(***************************************************************************)
(* MicQueue                                                                *)
(***************************************************************************)

PcmFrames == [arrived : Nat, sample : Nat, captured : Nat]

\* Frames in the order in which they came and were sent, none sent after position `last';
\* a frame whose capture time is known is speech, captured when it was sent.
InOrder(q, now, last) ==
  /\ \A i \in 1..Len(q) : /\ q[i].arrived <= now /\ q[i].sample <= last
                          /\ q[i].captured # 0 => q[i].captured = q[i].sample
  /\ \A i, j \in 1..Len(q) :
       i < j => /\ q[i].arrived <= q[j].arrived
                /\ q[i].sample # 0 /\ q[j].sample # 0 => q[i].sample < q[j].sample

MicQueueInv ==
  /\ pcm \in Seq(PcmFrames) /\ pcmNow \in Nat /\ nextSample \in Nat /\ hasSample \in BOOLEAN
  /\ ~hasSample => pcm = <<>>
  /\ Len(pcm) <= QueueFrames /\ InOrder(pcm, pcmNow, nextSample)
  /\ RenderedFresh

LEMMA MicQueueConstants ==
  /\ PacketFrames \in Nat /\ PacketFrames >= 2 /\ MaxPcmAge \in Nat
  /\ QueueFrames \in Nat /\ TargetFrames \in Nat /\ MaxSample \in Nat
  /\ PacketFrames <= QueueFrames
  BY MicQueueAssumption

LEMMA PcmFields ==
  ASSUME NEW q \in Seq(PcmFrames), NEW i \in 1..Len(q)
  PROVE  q[i].arrived \in Nat /\ q[i].sample \in Nat /\ q[i].captured \in Nat
<1>1. q[i] \in PcmFrames
  OBVIOUS
<1>2. \A x \in PcmFrames : x.arrived \in Nat /\ x.sample \in Nat /\ x.captured \in Nat
  BY DEF PcmFrames
<1> QED BY ONLY <1>1, <1>2

LEMMA FromFacts ==
  ASSUME NEW S, NEW q \in Seq(S), NEW n \in 0..Len(q)
  PROVE  /\ From(q, n) \in Seq(S) /\ Len(From(q, n)) = Len(q) - n
         /\ \A i \in 1..(Len(q) - n) : From(q, n)[i] = q[n + i]
  BY DEF From

LEMMA ConcatLength ==
  ASSUME NEW S, NEW q \in Seq(S), NEW r \in Seq(S)
  PROVE  Len(q \o r) = Len(q) + Len(r)
  OBVIOUS

LEMMA FirstFacts ==
  ASSUME NEW S, NEW q \in Seq(S), NEW n \in 0..Len(q)
  PROVE  /\ SubSeq(q, 1, n) \in Seq(S) /\ Len(SubSeq(q, 1, n)) = n
         /\ \A i \in 1..n : SubSeq(q, 1, n)[i] = q[i]
  OBVIOUS

\* A run of consecutive frames keeps their order.
LEMMA WindowInOrder ==
  ASSUME NEW q \in Seq(PcmFrames), NEW r \in Seq(PcmFrames), NEW n \in Nat, NEW now, NEW last,
         n + Len(r) <= Len(q), \A i \in 1..Len(r) : r[i] = q[n + i],
         InOrder(q, now, last)
  PROVE  InOrder(r, now, last)
<1>0. Len(q) \in Nat /\ Len(r) \in Nat
  OBVIOUS
<1>1. \A i \in 1..Len(r) : n + i \in 1..Len(q)
  BY <1>0
<1>2. ASSUME NEW i \in 1..Len(r)
      PROVE  /\ r[i].arrived <= now /\ r[i].sample <= last
             /\ r[i].captured # 0 => r[i].captured = r[i].sample
  BY <1>1, <1>2 DEF InOrder
<1>3. ASSUME NEW i \in 1..Len(r), NEW j \in 1..Len(r), i < j
      PROVE  /\ r[i].arrived <= r[j].arrived
             /\ r[i].sample # 0 /\ r[j].sample # 0 => r[i].sample < r[j].sample
  <2>1. n + i \in 1..Len(q) /\ n + j \in 1..Len(q) /\ n + i < n + j
    BY <1>0, <1>3, <1>1
  <2> QED BY <2>1, <1>3 DEF InOrder
<1> QED BY ONLY <1>2, <1>3 DEF InOrder

\* Frames that have just come, sent after everything queued, may follow it.
LEMMA AppendInOrder ==
  ASSUME NEW q \in Seq(PcmFrames), NEW r \in Seq(PcmFrames),
         NEW now \in Nat, NEW last \in Nat, NEW end \in Nat,
         last <= end, InOrder(q, now, last), InOrder(r, now, end),
         \A i \in 1..Len(r) : r[i].arrived = now /\ (r[i].sample = 0 \/ r[i].sample > last)
  PROVE  q \o r \in Seq(PcmFrames) /\ InOrder(q \o r, now, end)
<1> DEFINE s == q \o r
<1>0. /\ Len(q) \in Nat /\ Len(r) \in Nat /\ Len(s) = Len(q) + Len(r) /\ s \in Seq(PcmFrames)
      /\ \A i \in 1..Len(q) : s[i] = q[i]
      /\ \A i \in 1..Len(r) : s[Len(q) + i] = r[i]
  OBVIOUS
<1>t. /\ \A i \in 1..Len(q) : q[i].arrived \in Nat /\ q[i].sample \in Nat
      /\ \A i \in 1..Len(r) : r[i].arrived \in Nat /\ r[i].sample \in Nat
  BY PcmFields
<1> HIDE DEF s
<1>1. \A i \in 1..Len(s) : \/ i \in 1..Len(q) /\ s[i] = q[i]
                           \/ /\ i - Len(q) \in 1..Len(r) /\ s[i] = r[i - Len(q)]
  <2> SUFFICES ASSUME NEW i \in 1..Len(s), ~(i \in 1..Len(q))
               PROVE  i - Len(q) \in 1..Len(r) /\ s[i] = r[i - Len(q)]
    BY <1>0
  <2>1. i - Len(q) \in 1..Len(r) /\ Len(q) + (i - Len(q)) = i
    BY <1>0
  <2> QED BY <2>1, <1>0
<1>2. ASSUME NEW i \in 1..Len(s)
      PROVE  /\ s[i].arrived <= now /\ s[i].sample <= end
             /\ s[i].captured # 0 => s[i].captured = s[i].sample
  <2>1. CASE i \in 1..Len(q) /\ s[i] = q[i]
    <3>1. q[i].sample <= last /\ q[i].sample \in Nat
      BY <2>1, <1>t DEF InOrder
    <3>2. q[i].sample <= end
      BY <3>1
    <3> QED BY ONLY <2>1, <3>2, InOrder(q, now, last) DEF InOrder
  <2>2. CASE i - Len(q) \in 1..Len(r) /\ s[i] = r[i - Len(q)]
    BY ONLY <2>2, InOrder(r, now, end) DEF InOrder
  <2> QED BY ONLY <2>1, <2>2, <1>1, <1>2
<1>3. ASSUME NEW i \in 1..Len(s), NEW j \in 1..Len(s), i < j
      PROVE  /\ s[i].arrived <= s[j].arrived
             /\ s[i].sample # 0 /\ s[j].sample # 0 => s[i].sample < s[j].sample
  <2>1. CASE i \in 1..Len(q) /\ s[i] = q[i] /\ j \in 1..Len(q) /\ s[j] = q[j]
    BY ONLY <2>1, <1>3, InOrder(q, now, last) DEF InOrder
  <2>2. CASE /\ i \in 1..Len(q) /\ s[i] = q[i]
             /\ j - Len(q) \in 1..Len(r) /\ s[j] = r[j - Len(q)]
    <3>1. q[i].arrived <= now /\ q[i].sample <= last /\ q[i].sample \in Nat
      BY <2>2, <1>t DEF InOrder
    <3>2. /\ r[j - Len(q)].arrived = now /\ r[j - Len(q)].sample \in Nat
          /\ r[j - Len(q)].sample = 0 \/ r[j - Len(q)].sample > last
      BY <2>2, <1>t
    <3> QED BY ONLY <2>2, <3>1, <3>2, last \in Nat
  <2>3. CASE /\ i - Len(q) \in 1..Len(r) /\ s[i] = r[i - Len(q)]
             /\ j - Len(q) \in 1..Len(r) /\ s[j] = r[j - Len(q)]
    <3>1. i - Len(q) < j - Len(q)
      BY <1>0, <1>3
    <3> QED BY ONLY <2>3, <3>1, InOrder(r, now, end) DEF InOrder
  <2>4. ~(/\ i - Len(q) \in 1..Len(r) /\ j \in 1..Len(q))
    BY <1>0, <1>3
  <2> QED BY ONLY <2>1, <2>2, <2>3, <2>4, <1>1, <1>3
<1> QED BY ONLY <1>0, <1>2, <1>3 DEF InOrder, s

\* Frames that come together, sent for the positions after `first' or filled in.
NewFrame(x, first, i) ==
  /\ x \in PcmFrames /\ x.arrived = pcmNow
  /\ x.sample = 0 \/ x.sample = first + i
  /\ x.captured # 0 => x.captured = x.sample

AllNew(r, first, count) ==
  r = [i \in 1..count |-> r[i]] /\ \A i \in 1..count : NewFrame(r[i], first, i)

LEMMA NewFramesFacts ==
  ASSUME NEW first \in Nat, NEW count \in Nat, pcmNow \in Nat,
         NEW r, AllNew(r, first, count)
  PROVE  /\ r \in Seq(PcmFrames) /\ Len(r) = count /\ InOrder(r, pcmNow, first + count)
         /\ \A i \in 1..Len(r) : r[i].arrived = pcmNow
                                 /\ (r[i].sample = 0 \/ r[i].sample > first)
<1>1. \A i \in 1..count : /\ r[i] \in PcmFrames /\ r[i].arrived = pcmNow
                          /\ r[i].sample = 0 \/ r[i].sample = first + i
                          /\ r[i].captured # 0 => r[i].captured = r[i].sample
  BY DEF AllNew, NewFrame
<1>2. r \in Seq(PcmFrames) /\ Len(r) = count
  <2>1. r = [i \in 1..count |-> r[i]]
    BY DEF AllNew
  <2> QED BY ONLY <1>1, <2>1, count \in Nat
<1>3. InOrder(r, pcmNow, first + count)
  BY <1>1, <1>2 DEF InOrder
<1>4. \A i \in 1..Len(r) : r[i].arrived = pcmNow /\ (r[i].sample = 0 \/ r[i].sample > first)
  BY <1>1, <1>2
<1> QED BY ONLY <1>2, <1>3, <1>4

LEMMA SilentFrames ==
  ASSUME NEW first \in Nat, NEW count \in Nat, pcmNow \in Nat,
         NEW r, r = NewFrames(first, count, FALSE, FALSE)
  PROVE  AllNew(r, first, count)
<1>1. r = [i \in 1..count |-> [arrived |-> pcmNow, sample |-> 0, captured |-> 0]]
  BY DEF NewFrames
<1>2. \A i \in 1..count : r[i] = [arrived |-> pcmNow, sample |-> 0, captured |-> 0]
  BY ONLY <1>1
<1>3. r = [i \in 1..count |-> r[i]]
  BY ONLY <1>1
<1>4. [arrived |-> pcmNow, sample |-> 0, captured |-> 0] \in PcmFrames
  BY DEF PcmFrames
<1> QED BY ONLY <1>2, <1>3, <1>4 DEF AllNew, NewFrame

LEMMA SpokenFrames ==
  ASSUME NEW first \in Nat, NEW count \in Nat, NEW capture, pcmNow \in Nat,
         NEW r, r = NewFrames(first, count, TRUE, capture)
  PROVE  AllNew(r, first, count)
<1>1. r = [i \in 1..count |-> [arrived |-> pcmNow, sample |-> first + i,
                               captured |-> IF capture THEN first + i ELSE 0]]
  BY DEF NewFrames
<1>2. ASSUME NEW i \in 1..count
      PROVE  NewFrame(r[i], first, i)
  <2> DEFINE at == first + i
             known == IF capture THEN at ELSE 0
  <2>1. at \in Nat /\ known \in Nat /\ (known # 0 => known = at)
    OBVIOUS
  <2>2. r[i] = [arrived |-> pcmNow, sample |-> at, captured |-> known]
    BY <1>1
  <2> HIDE DEF known, at
  <2>3. r[i] \in PcmFrames
    BY ONLY <2>1, <2>2, pcmNow \in Nat DEF PcmFrames
  <2>4. /\ r[i].arrived = pcmNow /\ r[i].sample = at
        /\ r[i].captured # 0 => r[i].captured = r[i].sample
    BY ONLY <2>1, <2>2
  <2> QED BY ONLY <2>3, <2>4 DEF NewFrame, at
<1>3. r = [i \in 1..count |-> r[i]]
  BY ONLY <1>1
<1> QED BY ONLY <1>2, <1>3 DEF AllNew

\* Frames come in order, so what Expired leaves is fresh to the last frame.
LEMMA ExpiredFacts ==
  ASSUME NEW q \in Seq(PcmFrames), NEW last, InOrder(q, pcmNow, last), pcmNow \in Nat
  PROVE  /\ Expired(q) \in 0..Len(q)
         /\ \A i \in 1..Len(q) : i > Expired(q) => pcmNow - q[i].arrived < MaxPcmAge
<1> DEFINE fresh == {i \in 1..Len(q) : pcmNow - q[i].arrived < MaxPcmAge}
<1>0. Len(q) \in Nat /\ MaxPcmAge \in Nat /\ fresh \subseteq Nat /\ fresh \subseteq 1..Len(q)
  BY MicQueueConstants
<1>t. \A i \in 1..Len(q) : q[i].arrived \in Nat
  BY PcmFields
<1>1. CASE fresh = {}
  <2>1. Expired(q) = Len(q)
    BY <1>1 DEF Expired
  <2> QED BY <2>1, <1>0
<1>2. CASE fresh # {}
  <2> DEFINE k == CHOOSE i \in fresh : \A o \in fresh : i <= o
  <2>1. k \in fresh /\ \A o \in fresh : k <= o
    <3>1. \E i \in fresh : \A o \in fresh : i <= o
      <4> HIDE DEF fresh
      <4> QED BY <1>0, <1>2, LeastNatural
    <3> HIDE DEF fresh
    <3> QED BY <3>1
  <2>2. Expired(q) = k - 1
    BY <1>2 DEF Expired
  <2> HIDE DEF k
  <2>3. k \in 1..Len(q) /\ pcmNow - q[k].arrived < MaxPcmAge
    BY <2>1
  <2>4. \A i \in 1..Len(q) : i > k - 1 => q[k].arrived <= q[i].arrived
    BY <2>3, <1>0, <1>t DEF InOrder
  <2> QED BY <2>2, <2>3, <2>4, <1>0, <1>t
<1> QED BY ONLY <1>1, <1>2

\* A capture time is claimed for speech without a hole: a first frame out of step would
\* follow one in step, and the check of neighbours excludes that.
LEMMA CaptureFacts ==
  ASSUME NEW f \in Seq(PcmFrames), NEW now, NEW last, InOrder(f, now, last), Len(f) >= 1,
         CaptureTime(f) # 0
  PROVE  \A i \in 1..Len(f) : f[i].sample # 0 /\ f[i].sample = f[1].sample + i - 1
<1>0. Len(f) \in Nat /\ 1 \in 1..Len(f)
  OBVIOUS
<1>t. \A i \in 1..Len(f) : f[i].captured \in Nat /\ f[i].sample \in Nat
  BY PcmFields
<1>1. /\ f[1].captured # 0
      /\ \A i \in 2..Len(f) : f[i - 1].captured # 0 /\ f[i].captured = f[i - 1].captured + 1
  BY DEF CaptureTime
<1> DEFINE wrong == {i \in 1..Len(f) : ~(/\ f[i].captured # 0
                                         /\ f[i].captured = f[1].captured + i - 1)}
<1>2. wrong = {}
  <2> SUFFICES ASSUME wrong # {}
               PROVE  FALSE
    OBVIOUS
  <2>1. wrong \subseteq Nat
    BY <1>0
  <2>2. PICK k \in wrong : \A o \in wrong : k <= o
    <3> HIDE DEF wrong
    <3> QED BY <2>1, LeastNatural
  <2>3. k \in 1..Len(f) /\ k # 1
    BY <1>1, <1>t, <1>0
  <2>4. k \in 2..Len(f) /\ k - 1 \in 1..Len(f)
    BY <2>3, <1>0
  <2>5. k - 1 \notin wrong
    <3> HIDE DEF wrong
    <3> QED BY <2>2, <2>3, <2>4
  <2>6. f[k - 1].captured # 0 /\ f[k - 1].captured = f[1].captured + (k - 1) - 1
    BY <2>4, <2>5
  <2>7. f[k].captured = f[k - 1].captured + 1
    BY <1>1, <2>4
  <2>8. f[k].captured # 0 /\ f[k].captured = f[1].captured + k - 1
    <3> DEFINE a == f[k].captured
               b == f[k - 1].captured
               c == f[1].captured
    <3>1. a \in Nat /\ b \in Nat /\ c \in Nat /\ k \in Nat
      BY <1>0, <1>t, <2>4
    <3>2. b = c + (k - 1) - 1 /\ a = b + 1
      BY <2>6, <2>7
    <3> HIDE DEF a, b, c
    <3>3. a # 0 /\ a = c + k - 1
      BY ONLY <3>1, <3>2
    <3> QED BY <3>3 DEF a, c
  <2> QED BY <2>8, <2>2
<1>3. \A i \in 1..Len(f) : f[i].captured # 0 /\ f[i].captured = f[1].captured + i - 1
  BY <1>2
<1>4. \A i \in 1..Len(f) : f[i].captured = f[i].sample
  BY <1>3 DEF InOrder
<1> QED BY <1>3, <1>4, <1>0

\* Silence and an empty block claim nothing.
LEMMA NoBlockFresh == block = NoBlock /\ Len(pcm) <= QueueFrames => RenderedFresh
<1> SUFFICES ASSUME block = NoBlock, Len(pcm) <= QueueFrames
             PROVE  RenderedFresh
  OBVIOUS
<1>1. block.frames = <<>> /\ block.capture = 0 /\ Len(block.frames) = 0
  BY DEF NoBlock
<1> QED BY <1>1 DEF RenderedFresh

LEMMA MicQueueInitHolds == MicQueueInit => MicQueueInv
<1> SUFFICES ASSUME MicQueueInit
             PROVE  MicQueueInv
  OBVIOUS
<1>1. pcm = <<>> /\ Len(pcm) = 0 /\ pcm \in Seq(PcmFrames)
  BY DEF MicQueueInit
<1>2. pcmNow \in Nat /\ nextSample \in Nat /\ hasSample \in BOOLEAN /\ block = NoBlock
  BY DEF MicQueueInit
<1>3. InOrder(pcm, pcmNow, nextSample)
  BY <1>1 DEF InOrder
<1>4. Len(pcm) <= QueueFrames
  BY <1>1, MicQueueConstants
<1> QED BY ONLY <1>1, <1>2, <1>3, <1>4, NoBlockFresh DEF MicQueueInv

LEMMA FlushKeepsQueue ==
  ASSUME MicQueueInv, NEW clear \in BOOLEAN, Flush(clear)
  PROVE  MicQueueInv'
<1>1. pcm' = <<>> /\ Len(pcm') = 0 /\ pcm' \in Seq(PcmFrames)
  BY DEF Flush
<1>2. pcmNow' \in Nat /\ nextSample' \in Nat /\ hasSample' \in BOOLEAN /\ block' = NoBlock
  BY DEF Flush, MicQueueInv
<1>3. InOrder(pcm, pcmNow, nextSample)'
  BY <1>1 DEF InOrder
<1>4. Len(pcm') <= QueueFrames
  BY <1>1, MicQueueConstants
<1>5. RenderedFresh'
  <2>1. block'.frames = <<>> /\ block'.capture = 0 /\ Len(block'.frames) = 0
    BY <1>2 DEF NoBlock
  <2> QED BY <2>1, <1>4 DEF RenderedFresh
<1> QED BY ONLY <1>1, <1>2, <1>3, <1>4, <1>5 DEF MicQueueInv

LEMMA TimeKeepsQueue ==
  ASSUME MicQueueInv, PcmTime
  PROVE  MicQueueInv'
<1>1. /\ pcm' = pcm /\ nextSample' = nextSample /\ hasSample' = hasSample
      /\ pcmNow' = pcmNow + 1 /\ block' = NoBlock
  BY DEF PcmTime
<1>2. /\ pcm \in Seq(PcmFrames) /\ pcmNow \in Nat /\ nextSample \in Nat /\ hasSample \in BOOLEAN
      /\ ~hasSample => pcm = <<>>
      /\ Len(pcm) <= QueueFrames /\ InOrder(pcm, pcmNow, nextSample)
  BY DEF MicQueueInv
<1>3. InOrder(pcm, pcmNow, nextSample)'
  <2>1. \A i \in 1..Len(pcm) : pcm[i].arrived \in Nat
    BY <1>2, PcmFields
  <2>2. \A i \in 1..Len(pcm) : pcm[i].arrived <= pcmNow + 1
    BY <2>1, <1>2 DEF InOrder
  <2> QED BY ONLY <2>2, <1>1, <1>2 DEF InOrder
<1>5. RenderedFresh'
  <2>1. block'.frames = <<>> /\ block'.capture = 0 /\ Len(block'.frames) = 0
    BY <1>1 DEF NoBlock
  <2> QED BY <2>1, <1>1, <1>2 DEF RenderedFresh
<1>6. pcmNow' \in Nat
  BY <1>1, <1>2
<1> QED BY ONLY <1>1, <1>2, <1>3, <1>5, <1>6 DEF MicQueueInv

LEMMA SubmitKeepsQueue ==
  ASSUME MicQueueInv, NEW sample \in Nat, NEW capture \in BOOLEAN, Submit(sample, capture)
  PROVE  MicQueueInv'
<1> DEFINE dead == Expired(pcm)
           q == From(pcm, dead)
           missing == IF hasSample THEN sample - nextSample ELSE 0
           fits == missing <= 2 * PacketFrames
                   /\ Len(q) + missing + PacketFrames <= QueueFrames
           kept == IF missing = 0 THEN q
                   ELSE IF fits THEN q \o NewFrames(nextSample, missing, FALSE, FALSE) ELSE <<>>
           over == IF Len(kept) + PacketFrames > QueueFrames
                   THEN Len(kept) + PacketFrames - QueueFrames ELSE 0
           fresh == NewFrames(sample, PacketFrames, TRUE, capture)
<1>1. /\ pcm' = From(kept, over) \o fresh
      /\ hasSample' = TRUE /\ nextSample' = sample + PacketFrames
      /\ block' = NoBlock /\ pcmNow' = pcmNow
      /\ ~hasSample \/ sample >= nextSample
  BY DEF Submit
<1>2. /\ pcm \in Seq(PcmFrames) /\ pcmNow \in Nat /\ nextSample \in Nat /\ hasSample \in BOOLEAN
      /\ ~hasSample => pcm = <<>>
      /\ Len(pcm) <= QueueFrames /\ InOrder(pcm, pcmNow, nextSample)
  BY DEF MicQueueInv
<1>3. dead \in 0..Len(pcm)
  BY <1>2, ExpiredFacts
<1> HIDE DEF dead
<1>4. q \in Seq(PcmFrames) /\ Len(q) = Len(pcm) - dead /\ Len(q) \in Nat
      /\ \A i \in 1..(Len(pcm) - dead) : q[i] = pcm[dead + i]
  BY <1>2, <1>3, FromFacts
<1> HIDE DEF q
<1>5. InOrder(q, pcmNow, nextSample)
  <2>1. /\ dead \in Nat /\ dead + Len(q) <= Len(pcm)
        /\ \A i \in 1..Len(q) : q[i] = pcm[dead + i]
    BY <1>2, <1>3, <1>4
  <2> QED BY ONLY <2>1, <1>2, <1>4, WindowInOrder
<1>6. missing \in Nat /\ (hasSample => nextSample + missing = sample)
  BY <1>1, <1>2
<1>7. kept \in Seq(PcmFrames) /\ InOrder(kept, pcmNow, sample)
  <2>1. CASE missing = 0
    <3>1. CASE ~hasSample
      <4>1. Len(q) = 0
        BY <1>2, <1>3, <1>4, <3>1
      <4> QED BY <4>1, <2>1, <1>4 DEF InOrder
    <3>2. CASE hasSample
      BY <1>5, <1>4, <1>6, <2>1, <3>2, <1>2
    <3> QED BY ONLY <3>1, <3>2
  <2>2. CASE missing # 0 /\ fits
    <3> DEFINE r == NewFrames(nextSample, missing, FALSE, FALSE)
    <3>1. hasSample /\ nextSample + missing = sample /\ nextSample <= sample
      BY <2>2, <1>6, <1>2
    <3> HIDE DEF missing
    <3>2. /\ r \in Seq(PcmFrames) /\ InOrder(r, pcmNow, sample)
          /\ \A i \in 1..Len(r) : r[i].arrived = pcmNow
                                  /\ (r[i].sample = 0 \/ r[i].sample > nextSample)
      <4>1. r = NewFrames(nextSample, missing, FALSE, FALSE) /\ pcmNow \in Nat
        BY <1>2
      <4> HIDE DEF r
      <4>2. /\ r \in Seq(PcmFrames) /\ InOrder(r, pcmNow, nextSample + missing)
            /\ \A i \in 1..Len(r) : r[i].arrived = pcmNow
                                    /\ (r[i].sample = 0 \/ r[i].sample > nextSample)
        <5>1. AllNew(r, nextSample, missing)
          BY ONLY <4>1, <1>2, <1>6, SilentFrames
        <5> QED BY ONLY <5>1, <1>2, <1>6, NewFramesFacts
      <4> QED BY ONLY <4>2, <3>1, Zenon
    <3>3. kept = q \o r
      BY <2>2
    <3> HIDE DEF r, kept
    <3> QED BY <3>1, <3>2, <3>3, <1>2, <1>4, <1>5, AppendInOrder
  <2>3. CASE missing # 0 /\ ~fits
    <3> HIDE DEF missing, fits
    <3>1. kept = <<>>
      BY <2>3
    <3> HIDE DEF kept
    <3>2. Len(kept) = 0 /\ kept \in Seq(PcmFrames)
      BY ONLY <3>1
    <3> QED BY ONLY <3>2 DEF InOrder
  <2> QED BY ONLY <2>1, <2>2, <2>3
<1> HIDE DEF kept
<1>8. over \in 0..Len(kept) /\ Len(kept) - over + PacketFrames <= QueueFrames /\ Len(kept) \in Nat
  BY <1>7, MicQueueConstants
<1> HIDE DEF over
<1> DEFINE room == From(kept, over)
<1>9. /\ room \in Seq(PcmFrames) /\ Len(room) = Len(kept) - over
      /\ \A i \in 1..(Len(kept) - over) : room[i] = kept[over + i]
  BY <1>7, <1>8, FromFacts
<1> HIDE DEF room
<1>10. InOrder(room, pcmNow, sample)
  BY <1>7, <1>8, <1>9, WindowInOrder
<1>11. /\ fresh \in Seq(PcmFrames) /\ Len(fresh) = PacketFrames
       /\ InOrder(fresh, pcmNow, sample + PacketFrames)
       /\ \A i \in 1..Len(fresh) : fresh[i].arrived = pcmNow
                                   /\ (fresh[i].sample = 0 \/ fresh[i].sample > sample)
  <2>1. PacketFrames \in Nat
    BY MicQueueConstants
  <2>2. fresh = NewFrames(sample, PacketFrames, TRUE, capture) /\ pcmNow \in Nat
    BY <1>2
  <2> HIDE DEF fresh
  <2>3. AllNew(fresh, sample, PacketFrames)
    BY ONLY <2>1, <2>2, sample \in Nat, SpokenFrames
  <2>4. pcmNow \in Nat
    BY ONLY <1>2
  <2> QED BY ONLY <2>1, <2>3, <2>4, sample \in Nat, NewFramesFacts
<1> HIDE DEF fresh
<1>12. pcm' = room \o fresh
  BY <1>1 DEF room
<1>13. sample + PacketFrames \in Nat /\ sample <= sample + PacketFrames
  BY MicQueueConstants
<1>14. room \o fresh \in Seq(PcmFrames) /\ InOrder(room \o fresh, pcmNow, sample + PacketFrames)
  BY ONLY <1>2, <1>9, <1>10, <1>11, <1>13, sample \in Nat, AppendInOrder
<1>15. Len(room \o fresh) <= QueueFrames
  <2>1. Len(room \o fresh) = Len(room) + Len(fresh)
    BY ONLY <1>9, <1>11, ConcatLength
  <2> QED BY ONLY <2>1, <1>8, <1>9, <1>11
<1>16. RenderedFresh'
  <2>1. block'.frames = <<>> /\ block'.capture = 0 /\ Len(block'.frames) = 0
    BY <1>1 DEF NoBlock
  <2> QED BY <2>1, <1>12, <1>15 DEF RenderedFresh
<1>17. InOrder(pcm, pcmNow, nextSample)'
  <2>1. InOrder(pcm', pcmNow', nextSample')
    BY ONLY <1>1, <1>12, <1>14
  <2> QED BY ONLY <2>1 DEF InOrder
<1> QED BY ONLY <1>1, <1>2, <1>12, <1>13, <1>14, <1>15, <1>16, <1>17 DEF MicQueueInv

LEMMA RenderKeepsQueue ==
  ASSUME MicQueueInv, Render
  PROVE  MicQueueInv'
<1> DEFINE dead == Expired(pcm)
           q == From(pcm, dead)
           ready == (primed /\ dead = 0) \/ Len(q) >= TargetFrames
           start == IF primed /\ dead = 0 THEN average ELSE Len(q) * 256
           avg == start + Quotient(Len(q) * 256 - start, 32)
           count == IF Consumed(avg) > Len(q) THEN Len(q) ELSE Consumed(avg)
           f == SubSeq(q, 1, count)
<1>1. \/ /\ ready /\ Len(q) >= PacketFrames - 1
         /\ block' = [frames |-> f, capture |-> CaptureTime(f), at |-> pcmNow]
         /\ pcm' = From(q, count)
      \/ block' = NoBlock /\ pcm' = q
  BY DEF Render
<1>u. nextSample' = nextSample /\ hasSample' = hasSample /\ pcmNow' = pcmNow
  BY DEF Render
<1>2. /\ pcm \in Seq(PcmFrames) /\ pcmNow \in Nat /\ nextSample \in Nat /\ hasSample \in BOOLEAN
      /\ ~hasSample => pcm = <<>>
      /\ Len(pcm) <= QueueFrames /\ InOrder(pcm, pcmNow, nextSample)
  BY DEF MicQueueInv
<1>3. /\ dead \in 0..Len(pcm)
      /\ \A i \in 1..Len(pcm) : i > dead => pcmNow - pcm[i].arrived < MaxPcmAge
  BY <1>2, ExpiredFacts
<1> HIDE DEF dead
<1>4. q \in Seq(PcmFrames) /\ Len(q) = Len(pcm) - dead /\ Len(q) \in Nat
      /\ \A i \in 1..(Len(pcm) - dead) : q[i] = pcm[dead + i]
  BY <1>2, <1>3, FromFacts
<1> HIDE DEF q, ready, avg, f
<1>5. InOrder(q, pcmNow, nextSample)
  <2>1. /\ dead \in Nat /\ dead + Len(q) <= Len(pcm)
        /\ \A i \in 1..Len(q) : q[i] = pcm[dead + i]
    BY <1>2, <1>3, <1>4
  <2> QED BY ONLY <2>1, <1>2, <1>4, WindowInOrder
<1>6. \A i \in 1..Len(q) : pcmNow - q[i].arrived < MaxPcmAge
  <2> TAKE i \in 1..Len(q)
  <2>1. dead + i \in 1..Len(pcm) /\ dead + i > dead /\ q[i] = pcm[dead + i]
    BY <1>2, <1>3, <1>4
  <2> QED BY <2>1, <1>3
<1>7. CASE block' = NoBlock /\ pcm' = q
  <2>1. Len(q) <= QueueFrames
    BY <1>2, <1>3, <1>4, MicQueueConstants
  <2>2. RenderedFresh'
    <3>1. block'.frames = <<>> /\ block'.capture = 0 /\ Len(block'.frames) = 0
      BY <1>7 DEF NoBlock
    <3> QED BY <3>1, <1>7, <2>1 DEF RenderedFresh
  <2>3. ~hasSample => q = <<>>
    <3>1. ~hasSample => Len(q) = 0
      BY <1>2, <1>3, <1>4
    <3> QED BY <3>1, <1>4
  <2>4. InOrder(pcm, pcmNow, nextSample)'
    BY ONLY <1>5, <1>7, <1>u DEF InOrder
  <2> QED BY ONLY <1>u, <1>2, <1>4, <1>7, <2>1, <2>2, <2>3, <2>4 DEF MicQueueInv
<1>8. CASE /\ Len(q) >= PacketFrames - 1
           /\ block' = [frames |-> f, capture |-> CaptureTime(f), at |-> pcmNow]
           /\ pcm' = From(q, count)
  <2>1. Consumed(avg) \in Nat /\ Consumed(avg) >= 1
    BY MicQueueConstants DEF Consumed
  <2>2. count \in 1..Len(q)
    BY <2>1, <1>8, <1>4, MicQueueConstants
  <2> HIDE DEF count
  <2>3. f \in Seq(PcmFrames) /\ Len(f) = count /\ \A i \in 1..count : f[i] = q[i]
    <3>1. count \in 0..Len(q)
      BY <2>2
    <3> QED BY ONLY <3>1, <1>4, FirstFacts DEF f
  <2>4. InOrder(f, pcmNow, nextSample)
    <3>1. 0 + Len(f) <= Len(q) /\ \A i \in 1..Len(f) : f[i] = q[0 + i]
      BY <2>2, <2>3, <1>4
    <3> QED BY <3>1, <2>3, <1>4, <1>5, WindowInOrder
  <2>5. \A i \in 1..Len(f) : pcmNow - f[i].arrived < MaxPcmAge
    BY <1>4, <1>6, <2>2, <2>3
  <2>6. CaptureTime(f) # 0 =>
          \A i \in 1..Len(f) : f[i].sample # 0 /\ f[i].sample = f[1].sample + i - 1
    <3>1. Len(f) >= 1
      BY <2>2, <2>3
    <3> QED BY <3>1, <2>3, <2>4, CaptureFacts
  <2> DEFINE rest == From(q, count)
  <2>7. /\ rest \in Seq(PcmFrames) /\ Len(rest) = Len(q) - count
        /\ \A i \in 1..(Len(q) - count) : rest[i] = q[count + i]
    <3>1. count \in 0..Len(q) /\ q \in Seq(PcmFrames)
      BY <1>4, <2>2
    <3> QED BY ONLY <3>1, FromFacts
  <2> HIDE DEF rest
  <2>8. InOrder(rest, pcmNow, nextSample)
    <3>1. /\ count \in Nat /\ count + Len(rest) <= Len(q)
          /\ \A i \in 1..Len(rest) : rest[i] = q[count + i]
      BY <1>4, <2>2, <2>7
    <3> QED BY ONLY <3>1, <1>4, <1>5, <2>7, WindowInOrder
  <2>9. Len(rest) <= QueueFrames
    BY <1>2, <1>3, <1>4, <2>2, <2>7, MicQueueConstants
  <2>10. pcm' = rest
    BY <1>8 DEF rest
  <2>11. hasSample
    <3>1. pcm # <<>>
      BY <1>3, <1>4, <2>2
    <3> QED BY <3>1, <1>2
  <2>12. block'.frames = f /\ block'.capture = CaptureTime(f) /\ block'.at = pcmNow
    BY <1>8
  <2>13. RenderedFresh'
    <3> DEFINE real == {i \in 1..Len(f) : f[i].sample # 0}
    <3>1. \A i, j \in real : i < j => f[i].sample < f[j].sample
      BY <2>4 DEF InOrder
    <3>2. CaptureTime(f) # 0 => real = 1..Len(f) /\ f[Len(f)].sample = f[1].sample + Len(f) - 1
      <4>1. Len(f) \in 1..Len(f)
        BY <2>2, <2>3
      <4> QED BY <4>1, <2>6
    <3> QED BY ONLY <2>12, <2>5, <3>1, <3>2, <2>9, <2>10 DEF RenderedFresh
  <2>14. InOrder(pcm, pcmNow, nextSample)'
    BY ONLY <2>8, <2>10, <1>u DEF InOrder
  <2> QED BY ONLY <1>u, <1>2, <2>7, <2>9, <2>10, <2>11, <2>13, <2>14 DEF MicQueueInv
<1> QED BY ONLY <1>1, <1>7, <1>8

LEMMA MicQueueInvariant == MicQueueSpec => []MicQueueInv
<1>1. MicQueueInv /\ [MicQueueNext]_micQueueVars => MicQueueInv'
  <2> SUFFICES ASSUME MicQueueInv, [MicQueueNext]_micQueueVars
               PROVE  MicQueueInv'
    OBVIOUS
  <2>1. ASSUME NEW n \in 0..MaxSample \div PacketFrames, NEW c \in BOOLEAN,
               Submit(n * PacketFrames, c)
        PROVE  MicQueueInv'
    <3>1. n \in Nat /\ PacketFrames \in Nat
      BY MicQueueConstants
    <3>2. n * PacketFrames \in Nat
      BY <3>1
    <3> QED BY <2>1, <3>2, SubmitKeepsQueue
  <2>2. CASE UNCHANGED micQueueVars
    BY <2>2 DEF micQueueVars, MicQueueInv, InOrder, RenderedFresh
  <2> QED BY <2>1, <2>2, FlushKeepsQueue, RenderKeepsQueue, TimeKeepsQueue DEF MicQueueNext
<1> QED BY <1>1, MicQueueInitHolds, PTL DEF MicQueueSpec

\* However arrivals, gaps, starvation and rendering interleave in microphone-queue.h, a
\* rendered block is in order and fresh, its capture time is claimed for unbroken speech
\* only, and the queue never outgrows its capacity.
THEOREM BlocksFresh == MicQueueSpec => []RenderedFresh
<1>1. MicQueueInv => RenderedFresh
  BY DEF MicQueueInv
<1> QED BY <1>1, MicQueueInvariant, PTL

====
