---- MODULE CameraLink ----
(***************************************************************************)
(* src/apps/host/macos/camera-device/camera-link.h: the camera producer    *)
(* writes records into three slots of shared memory, each a seqlock, and   *)
(* the camera extension copies them out, one attempt per tick.  Every      *)
(* store and load of the code is a step.  A record is two words; `arrived' *)
(* stands for both times of a record.                                      *)
(***************************************************************************)
EXTENDS Integers, Sequences

CONSTANTS
    CameraSlots,   \* PLANKCameraSlots, 3
    MaxAge,        \* PLANK_CAMERA_MAX_AGE_NS, in ticks of the clock
    MaxSerial,     \* bound: records written
    MaxTime        \* bound: ticks of the clock

ASSUME CameraLinkAssumption ==
    CameraSlots \in Nat \ {0} /\ MaxAge \in Nat /\ MaxSerial \in Nat /\ MaxTime \in Nat

VARIABLES
    slots,      \* slot -> [stamp, arrived, words]
    published,  \* the serial announced to the reader
    serial,     \* the writer's own serial
    writer,     \* place of the writer, 0 when idle
    cursor,     \* the reader's own serial
    reader,     \* [pc, now, arrived, words] of the copy being made
    clock,
    result      \* what the last read returned: [code, serial, words, age]

cameraLinkVars == <<slots, published, serial, writer, cursor, reader, clock, result>>

SlotOf(n) == (n - 1) % CameraSlots

\* PLANKCameraLinkInit on a fresh mapping.
CameraLinkInit ==
    /\ slots = [s \in 0..CameraSlots - 1 |-> [stamp |-> 0, arrived |-> 0, words |-> <<0, 0>>]]
    /\ published = 0 /\ serial = 0 /\ writer = 0 /\ cursor = 0
    /\ reader = [pc |-> "idle", now |-> 0, arrived |-> 0, words |-> <<0, 0>>]
    /\ clock = 1 /\ result = [code |-> 0, serial |-> 0, words |-> <<0, 0>>, age |-> 0]

-----------------------------------------------------------------------------
(* PLANKCameraLinkWriteTimed *)

Store(field, value) == slots' = [slots EXCEPT ![SlotOf(serial)] = [@ EXCEPT ![field] = value]]

\* The next slot is marked odd.
WriteBegin ==
    /\ writer = 0 /\ serial < MaxSerial
    /\ serial' = serial + 1 /\ writer' = 1
    /\ slots' = [slots EXCEPT ![SlotOf(serial')].stamp = 2 * serial' + 1]
    /\ UNCHANGED <<published, cursor, reader, clock, result>>

\* Times, the words, the even mark and the announcement, in this order.
WriteStep ==
    /\ writer > 0
    /\ writer' = (writer + 1) % 6
    /\ \/ writer = 1 /\ Store("arrived", clock) /\ UNCHANGED published
       \/ writer \in {2, 3} /\ UNCHANGED published
          /\ Store("words", [slots[SlotOf(serial)].words EXCEPT ![writer - 1] = serial])
       \/ writer = 4 /\ Store("stamp", 2 * serial) /\ UNCHANGED published
       \/ writer = 5 /\ published' = serial /\ UNCHANGED slots
    /\ UNCHANGED <<serial, cursor, reader, clock, result>>

-----------------------------------------------------------------------------
(* PLANKCameraLinkReadTimed, one call per tick of the consumer *)

\* -1: the caller asks for a key frame.
Rejects ==
    /\ result' = [result EXCEPT !.code = -1]
    /\ reader' = [reader EXCEPT !.pc = "idle"]

\* Nothing new, too far behind, or the next record.
ReadBegin ==
    /\ reader.pc = "idle" /\ published # cursor
    /\ IF published - cursor > CameraSlots
         THEN cursor' = published - 1 /\ Rejects
         ELSE /\ cursor' = cursor + 1
              /\ reader' = [reader EXCEPT !.pc = "stamp", !.now = clock]
              /\ UNCHANGED result
    /\ UNCHANGED <<slots, published, serial, writer, clock>>

\* The mark must be that of this record; then the times.
ReadStamp ==
    /\ reader.pc = "stamp"
    /\ IF slots[SlotOf(cursor)].stamp = 2 * cursor
         THEN reader' = [reader EXCEPT !.pc = "times"] /\ UNCHANGED result
         ELSE Rejects
    /\ UNCHANGED <<slots, published, serial, writer, cursor, clock>>

\* A record that is too old, or of the future, is not shown.
ReadTimes ==
    /\ reader.pc = "times"
    /\ LET at == slots[SlotOf(cursor)].arrived
       IN  IF at > 0 /\ at <= reader.now /\ reader.now - at <= MaxAge
             THEN /\ reader' = [reader EXCEPT !.pc = "word1", !.arrived = at]
                  /\ UNCHANGED result
             ELSE Rejects
    /\ UNCHANGED <<slots, published, serial, writer, cursor, clock>>

ReadWord(k) ==
    /\ reader.pc = <<"word1", "word2">>[k]
    /\ reader' = [reader EXCEPT !.words[k] = slots[SlotOf(cursor)].words[k],
                                !.pc = <<"word2", "check">>[k]]
    /\ UNCHANGED <<slots, published, serial, writer, cursor, clock, result>>

\* The mark must still be that of this record.
ReadCheck ==
    /\ reader.pc = "check"
    /\ IF slots[SlotOf(cursor)].stamp = 2 * cursor
         THEN /\ result' = [code |-> 1, serial |-> cursor, words |-> reader.words,
                            age |-> reader.now - reader.arrived]
              /\ reader' = [reader EXCEPT !.pc = "idle"]
         ELSE Rejects
    /\ UNCHANGED <<slots, published, serial, writer, cursor, clock>>

CameraTick ==
    /\ clock < MaxTime /\ clock' = clock + 1
    /\ UNCHANGED <<slots, published, serial, writer, cursor, reader, result>>

CameraLinkNext ==
    \/ WriteBegin \/ WriteStep \/ ReadBegin \/ ReadStamp \/ ReadTimes \/ ReadCheck \/ CameraTick
    \/ \E k \in 1..2 : ReadWord(k)
CameraLinkSpec == CameraLinkInit /\ [][CameraLinkNext]_cameraLinkVars

-----------------------------------------------------------------------------
(* Properties *)

\* A record the extension is given is the one its cursor names, whole and recent,
\* however many slots the writer has reused during the copy; and it is the
\* successor of the one before, unless a read in between returned -1 and so made
\* the consumer ask for a key frame.
CameraRecordsWhole ==
    [][(result'.code = 1 /\ result' # result) =>
         /\ result'.words = <<result'.serial, result'.serial>>
         /\ result'.age \in 0..MaxAge
         /\ result'.serial > result.serial
         /\ result.code = -1 \/ result'.serial = result.serial + 1]_cameraLinkVars
====
