---- MODULE HostConfiguration ----
(***************************************************************************)
(* The installer's conversion of the Host's settings and identity          *)
(* (scripts/package/macos-configure.m over session/configuration-files.h), *)
(* interrupted at any step, by a failure, a kill or a loss of power, and   *)
(* run again.  After a loss of power a volume is as it was at some moment  *)
(* since the last fsync of a directory, and a file that was not fsynced    *)
(* may be incomplete.                                                      *)
(***************************************************************************)
EXTENDS Integers

CONSTANTS
    NewUuids,            \* what NSUUID may return
    MaxInterruptions,    \* kills, failures and losses of power
    MaxEdits             \* changes an administrator makes to host.conf

VARIABLES
    disk,            \* what is seen under each name
    volume,          \* the states `disk' has had since the last fsync of a directory
    run,             \* the running operation: [mode, at, seen, file]; `seen' is what it read at
                     \* its start, `file' its temporary file
    interruptions, edits

configurationVars == <<disk, volume, run, interruptions, edits>>

LegacyUuid == "u0"
Absent == [text |-> "absent", flushed |-> TRUE]
File(text) == [text |-> text, flushed |-> TRUE]
\* [conf, identity, legacy, signIn] stand for host.conf, identity.plist, the host.plist of
\* earlier versions, and for the machine's TLS identity, which the package script makes
\* and which belongs to the UUID of that time.
Exists(d, name) == d[name] # Absent
Empty == [conf |-> Absent, identity |-> Absent, legacy |-> Absent, signIn |-> Absent]
NotRunning == [mode |-> "none", at |-> "done", seen |-> Empty, file |-> Absent]

Become(d) == disk' = d /\ volume' = volume \cup {d}
Proceed(at) == run' = [run EXCEPT !.at = at]
End == run' = NotRunning

-----------------------------------------------------------------------------
(* configuration-files.h *)

\* Mutation: the file is not fsynced before it gets its name.
WrittenUnflushed(text) == [text |-> text, flushed |-> FALSE]

\* The first half of plank_config_create: a temporary file, complete and fsynced.
Written(text) == [text |-> text, flushed |-> TRUE]

Write(at, text, next) ==
    /\ run.at = at /\ run' = [run EXCEPT !.at = next, !.file = Written(text)]
    /\ UNCHANGED <<disk, volume, interruptions, edits>>

\* The second half: RENAME_EXCL, which fails when the name is taken.
Publish(at, name, next) ==
    /\ run.at = at /\ UNCHANGED <<interruptions, edits>>
    /\ \/ ~Exists(disk, name) /\ Become([disk EXCEPT ![name] = run.file]) /\ Proceed(next)
       \/ Exists(disk, name) /\ End /\ UNCHANGED <<disk, volume>>

\* fsync of a directory.
SyncDirectory(at, next) ==
    /\ run.at = at /\ volume' = {disk}
    /\ IF next = "done" THEN End ELSE Proceed(next)
    /\ UNCHANGED <<disk, interruptions, edits>>

-----------------------------------------------------------------------------
(* macos-configure.m *)

\* PLANKMacReadWorkstationUUID and PLANKMacParseHostConfiguration of what plank_config_read
\* returns.
Legible(d, name) == Exists(d, name) => d[name].text # "partial"

\* The checks of main before anything is changed.
Acceptable(d) ==
    /\ Legible(d, "conf") /\ Legible(d, "identity") /\ Legible(d, "legacy")
    /\ Exists(d, "identity") /\ Exists(d, "legacy") => d.identity.text = d.legacy.text
    /\ Exists(d, "identity") \/ Exists(d, "legacy") \/ ~Exists(d, "signIn")

\* main up to the point where it begins to change things.
Begin(mode) ==
    /\ run = NotRunning
    /\ IF Acceptable(disk) /\ mode # "check"
          /\ mode = "finish" => Exists(disk, "conf") /\ Exists(disk, "identity")
       THEN run' = [mode |-> mode, seen |-> disk, file |-> Absent,
                    at |-> IF mode = "finish" THEN "retire"
                           ELSE IF disk.conf.text = "generated" THEN "automatic" ELSE "identity"]
       ELSE UNCHANGED run
    /\ UNCHANGED <<disk, volume, interruptions, edits>>

\* replaceGeneratedConfiguration: the name an earlier installer wrote into host.conf is
\* retired, if host.conf is still what was read.  The temporary file has a new name every
\* time, so that it is always published.
Automatic ==
    \/ Write("automatic", "automatic", "automaticSync")
    \/ SyncDirectory("automaticSync", "compare")
Compare ==
    /\ run.at = "compare"
    /\ IF disk.conf = run.seen.conf THEN Proceed("swap") ELSE End
    /\ UNCHANGED <<disk, volume, interruptions, edits>>
Swap ==
    /\ run.at = "swap" /\ Become([disk EXCEPT !.conf = run.file]) /\ Proceed("swapSync")
    /\ UNCHANGED <<interruptions, edits>>
SwapSync == SyncDirectory("swapSync", "identity")

\* The identity record: the UUID there is, or the converted one, or a new one.
CreateIdentity ==
    \/ /\ run.at = "identity" /\ Exists(run.seen, "identity") /\ Proceed("configuration")
       /\ UNCHANGED <<disk, volume, interruptions, edits>>
    \/ /\ ~Exists(run.seen, "identity")
       /\ \E u \in IF Exists(run.seen, "legacy") THEN {run.seen.legacy.text} ELSE NewUuids :
            Write("identity", u, "identityPublish")
    \/ Publish("identityPublish", "identity", "identitySync")
    \/ SyncDirectory("identitySync", "configuration")

\* host.conf: the converted settings, or the reference.
CreateConfiguration ==
    \/ /\ run.at = "configuration" /\ Exists(run.seen, "conf") /\ End
       /\ UNCHANGED <<disk, volume, interruptions, edits>>
    \/ /\ ~Exists(run.seen, "conf")
       /\ Write("configuration", IF Exists(run.seen, "legacy") THEN "converted" ELSE "reference",
                "configurationPublish")
    \/ Publish("configurationPublish", "conf", "configurationSync")
    \/ SyncDirectory("configurationSync", "done")

\* host-finish: the old record is removed.
RetireLegacy ==
    \/ /\ run.at = "retire" /\ UNCHANGED <<interruptions, edits>>
       /\ \/ Exists(run.seen, "legacy") /\ Become([disk EXCEPT !.legacy = Absent]) /\ Proceed("retireSync")
          \/ ~Exists(run.seen, "legacy") /\ End /\ UNCHANGED <<disk, volume>>
    \/ SyncDirectory("retireSync", "done")

-----------------------------------------------------------------------------
(* Around it *)

\* initialize_state of the package script, once host-prepare has succeeded.
MakeSignIn ==
    /\ run = NotRunning /\ Exists(disk, "identity") /\ Exists(disk, "conf") /\ ~Exists(disk, "signIn")
    /\ Become([disk EXCEPT !.signIn = File(disk.identity.text)])
    /\ UNCHANGED <<run, interruptions, edits>>

\* A step fails, or the process is killed.
Interrupt ==
    /\ run # NotRunning /\ interruptions < MaxInterruptions
    /\ interruptions' = interruptions + 1 /\ End /\ UNCHANGED <<disk, volume, edits>>

PowerLoss ==
    /\ interruptions < MaxInterruptions /\ interruptions' = interruptions + 1
    /\ \E d \in volume :
         disk' = [n \in DOMAIN d |-> IF d[n].flushed THEN d[n] ELSE File("partial")]
    /\ volume' = {disk'} /\ End /\ UNCHANGED edits

Edit ==
    /\ Exists(disk, "conf") /\ edits < MaxEdits /\ edits' = edits + 1
    /\ Become([disk EXCEPT !.conf = File("edited")]) /\ UNCHANGED <<run, interruptions>>

ConfigurationInit ==
    /\ disk \in {Empty, [Empty EXCEPT !.legacy = File(LegacyUuid), !.signIn = File(LegacyUuid)]}
                \cup {[Empty EXCEPT !.conf = File(c), !.identity = File(LegacyUuid),
                                    !.signIn = File(LegacyUuid)] : c \in {"generated", "edited"}}
    /\ volume = {disk} /\ run = NotRunning /\ interruptions = 0 /\ edits = 0

ConfigurationNext ==
    \/ (\E mode \in {"check", "prepare", "finish"} : Begin(mode)) \/ Automatic \/ Compare \/ Swap
    \/ SwapSync \/ CreateIdentity \/ CreateConfiguration \/ RetireLegacy \/ MakeSignIn \/ Interrupt
    \/ PowerLoss \/ Edit

-----------------------------------------------------------------------------
(* Properties *)

\* Of host-check, host-prepare and host-finish over plank_config_create: wherever they
\* were interrupted they can be run again (nothing they left is incomplete or
\* contradicts itself), the machine's TLS identity keeps the workstation UUID it was
\* made with, and the old record is only missing once both of its replacements are there.
Recovers(d) ==
    /\ Acceptable(d)
    /\ Exists(d, "signIn") =>
         \/ d.identity.text = d.signIn.text
         \/ ~Exists(d, "identity") /\ d.legacy.text = d.signIn.text
    /\ Exists(d, "signIn") /\ ~Exists(d, "legacy") => Exists(d, "identity") /\ Exists(d, "conf")

\* Recovers, whatever the next loss of power leaves; and host.conf is never replaced when
\* the administrator had edited it before the installer began.
InstallRecovers ==
    /\ [](\A d \in volume :
            Recovers([n \in DOMAIN d |-> IF d[n].flushed THEN d[n] ELSE File("partial")]))
    /\ [][run.seen.conf.text = "edited" /\ run'.mode = run.mode =>
            disk'.conf = disk.conf \/ edits' # edits]_configurationVars
====
