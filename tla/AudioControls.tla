---- MODULE AudioControls ----
(***************************************************************************)
(* The volume of PLANK Output on its way to the stream: SetPropertyData of *)
(* output-driver.c stores it and notifies the HAL, the HAL (external)      *)
(* calls the listeners of audio-tap.m on its control queue, which read the *)
(* device back through audio-output-volume.h and hand the gain to the tap's *)
(* owner queue.  A gain is its level in dB plus 100, so that Unity is 100; *)
(* Zero is the scalar 0.  A driver that comes back is another device.      *)
(***************************************************************************)
EXTENDS Integers, Sequences

CONSTANTS
    Setters,     \* threads of the HAL that set a control
    Levels,      \* what they set, more than Unity too
    MaxSets,     \* bound: calls of SetPropertyData
    MaxReloads   \* bound: restarts of the driver's process

Zero == 0
Floor == 4       \* -96 dB
Unity == 100

ASSUME AudioControlsAssumption ==
    /\ Levels \subseteq Nat /\ Unity \in Levels
    /\ MaxSets \in Nat /\ MaxReloads \in Nat

VARIABLES
    outputGain, outputMute,   \* of the driver, or of the process that ended
    setter,       \* [Setters -> where their call is]
    sets,         \* calls so far
    device,       \* the HAL's id of the device, 0 while there is none
    reloads,
    notices,      \* blocks on the tap's control queue
    observed,     \* _outputDevice, to which the tap listens; -1 before the first refresh
    refresh,      \* the refresh under way: [step, present, gain]
    ownerQueue,   \* gains dispatched to the owner queue
    tapGain,      \* _leftGain, _rightGain
    tapFailed, tapStopped

audioControlsVars == <<outputGain, outputMute, setter, sets, device, reloads, notices, observed,
                       refresh, ownerQueue, tapGain, tapFailed, tapStopped>>

NoRefresh == [step |-> "idle", present |-> FALSE, gain |-> Zero]

AudioControlsInit ==
    /\ outputGain = Unity /\ outputMute = 0
    /\ setter = [t \in Setters |-> "idle"] /\ sets = 0 /\ device = 1 /\ reloads = 0
    /\ notices = 1 /\ observed = -1       \* observeOutputVolume refreshes once itself
    /\ refresh = NoRefresh /\ ownerQueue = <<>> /\ tapGain = Zero
    /\ tapFailed = FALSE /\ tapStopped = FALSE

-----------------------------------------------------------------------------
\* set of the volume, through the device's or the control's scalar or in dB: what is
\* out of range is refused, the rest is stored and then notified.
SetGain(t, level, decibels) ==
    /\ setter[t] = "idle" /\ device # 0 /\ sets < MaxSets /\ sets' = sets + 1
    /\ decibels => level # Zero
    /\ LET legal == level <= Unity /\ (decibels => level >= Floor)
       IN  /\ outputGain' = IF legal THEN level ELSE outputGain
           /\ setter' = [setter EXCEPT ![t] = IF legal THEN "volume" ELSE "idle"]
    /\ UNCHANGED <<outputMute, device, reloads, notices, observed, refresh, ownerQueue,
                   tapGain, tapFailed, tapStopped>>

SetMute(t, value) ==
    /\ setter[t] = "idle" /\ device # 0 /\ sets < MaxSets /\ sets' = sets + 1
    /\ outputMute' = IF value > 1 THEN outputMute ELSE value
    /\ setter' = [setter EXCEPT ![t] = IF value > 1 THEN "idle" ELSE "mute"]
    /\ UNCHANGED <<outputGain, device, reloads, notices, observed, refresh, ownerQueue,
                   tapGain, tapFailed, tapStopped>>

\* PropertiesChanged of the control: nobody here listens to the control objects.
NotifyControl(t) ==
    /\ setter[t] \in {"volume", "mute"}
    /\ setter' = [setter EXCEPT ![t] = "device"]
    /\ UNCHANGED <<outputGain, outputMute, sets, device, reloads, notices, observed, refresh,
                   ownerQueue, tapGain, tapFailed, tapStopped>>

\* Mutation: only the control is notified.
NotifyDeviceNever(t) ==
    /\ setter[t] = "device"
    /\ setter' = [setter EXCEPT ![t] = "idle"]
    /\ UNCHANGED <<outputGain, outputMute, sets, device, reloads, notices, observed, refresh,
                   ownerQueue, tapGain, tapFailed, tapStopped>>

\* PropertiesChanged of the device.
NotifyDevice(t) ==
    /\ setter[t] = "device"
    /\ setter' = [setter EXCEPT ![t] = "idle"]
    /\ notices' = notices + IF observed = device /\ ~tapStopped THEN 1 ELSE 0
    /\ UNCHANGED <<outputGain, outputMute, sets, device, reloads, observed, refresh,
                   ownerQueue, tapGain, tapFailed, tapStopped>>

\* The driver's process ends; the list of devices changes.
DriverLost ==
    /\ device # 0 /\ reloads < MaxReloads /\ device' = 0 /\ reloads' = reloads + 1
    /\ setter' = [t \in Setters |-> "idle"]
    /\ notices' = IF tapStopped THEN 0 ELSE notices + 1
    /\ UNCHANGED <<outputGain, outputMute, sets, observed, refresh, ownerQueue, tapGain,
                   tapFailed, tapStopped>>

\* A new process knows nothing of the volume the last one had.
DriverBack ==
    /\ device = 0 /\ device' = reloads + 1
    /\ outputGain' = Unity /\ outputMute' = 0
    /\ notices' = IF tapStopped THEN 0 ELSE notices + 1
    /\ UNCHANGED <<setter, sets, reloads, observed, refresh, ownerQueue, tapGain, tapFailed,
                   tapStopped>>

-----------------------------------------------------------------------------
\* refreshOutputVolume: look the device up, listen to it, then read it.  A device
\* that went away silences the tap, and any change of device fails it.
Refresh ==
    /\ refresh.step = "idle" /\ notices > 0 /\ ~tapStopped
    /\ notices' = notices - 1
    /\ observed' = device
    /\ tapFailed' = (tapFailed \/ device = 0 \/ observed \notin {-1, device})
    /\ IF device # 0
         THEN refresh' = [NoRefresh EXCEPT !.step = "gain"] /\ UNCHANGED ownerQueue
         ELSE /\ ownerQueue' = Append(ownerQueue, Zero) /\ UNCHANGED refresh
    /\ UNCHANGED <<outputGain, outputMute, setter, sets, device, reloads, tapGain, tapStopped>>

\* PLANKOutputGains reads the master volume, the mute and the channels that make the
\* stereo pair, each with PLANKOutputValue: AudioObjectHasProperty, then
\* AudioObjectGetPropertyData.  The driver has no volume or mute of a single channel.
Values == {"gain", "mute", "channels"}
FollowedBy(step) ==
    IF step = "gain" THEN "mute" ELSE IF step = "mute" THEN "channels" ELSE "apply"

\* A property that is not there keeps its default, unity and not muted; a device that is
\* gone has no property.
AskValue ==
    /\ refresh.step \in Values /\ ~refresh.present
    /\ refresh' =
         IF observed = device
         THEN [step |-> refresh.step, present |-> TRUE, gain |-> refresh.gain]
         ELSE [step |-> FollowedBy(refresh.step), present |-> FALSE,
               gain |-> IF refresh.step = "gain" THEN Unity ELSE refresh.gain]
    /\ UNCHANGED <<outputGain, outputMute, setter, sets, device, reloads, notices, observed,
                   ownerQueue, tapGain, tapFailed, tapStopped>>

\* A read that fails, of a device that goes away in between, is silence.
ReadValue ==
    /\ refresh.step \in Values /\ refresh.present
    /\ refresh' =
         IF observed # device THEN [NoRefresh EXCEPT !.step = "apply"]
         ELSE [step |-> FollowedBy(refresh.step), present |-> FALSE,
               gain |-> IF refresh.step = "gain" THEN outputGain
                        ELSE IF refresh.step = "mute" /\ outputMute # 0 THEN Zero ELSE refresh.gain]
    /\ UNCHANGED <<outputGain, outputMute, setter, sets, device, reloads, notices, observed,
                   ownerQueue, tapGain, tapFailed, tapStopped>>

DispatchGain ==
    /\ refresh.step = "apply"
    /\ ownerQueue' = Append(ownerQueue, refresh.gain) /\ refresh' = NoRefresh
    /\ UNCHANGED <<outputGain, outputMute, setter, sets, device, reloads, notices, observed,
                   tapGain, tapFailed, tapStopped>>

\* The owner queue takes the gain over, unless the tap was stopped.
ApplyGain ==
    /\ ownerQueue # <<>>
    /\ tapGain' = IF tapStopped THEN tapGain ELSE Head(ownerQueue)
    /\ ownerQueue' = Tail(ownerQueue)
    /\ UNCHANGED <<outputGain, outputMute, setter, sets, device, reloads, notices, observed,
                   refresh, tapFailed, tapStopped>>

StopVolumeTap ==
    /\ ~tapStopped /\ tapStopped' = TRUE
    /\ notices' = 0
    /\ UNCHANGED <<outputGain, outputMute, setter, sets, device, reloads, observed,
                   refresh, ownerQueue, tapGain, tapFailed>>

AudioControlsNext ==
    \/ \E t \in Setters :
         \/ \E level \in Levels, decibels \in BOOLEAN : SetGain(t, level, decibels)
         \/ \E value \in 0..2 : SetMute(t, value)
         \/ NotifyControl(t) \/ NotifyDevice(t)
    \/ DriverLost \/ DriverBack \/ Refresh \/ AskValue \/ ReadValue \/ DispatchGain \/ ApplyGain
    \/ StopVolumeTap
AudioControlsSpec == AudioControlsInit /\ [][AudioControlsNext]_audioControlsVars

-----------------------------------------------------------------------------
(* Properties *)

\* Volume and mute are set by several threads while the tap listens, reads and
\* applies on two other queues and the driver may restart: once all of that is
\* quiet, the gain of the stream is the device's, silence when it is muted or gone,
\* and a driver that was lost has failed the tap.  Until then the gain may be an
\* earlier one, or the default of a device that went away before it was read.
TapGainFollows ==
    /\ (/\ \A t \in Setters : setter[t] = "idle"
        /\ notices = 0 /\ refresh = NoRefresh /\ ownerQueue = <<>> /\ ~tapStopped)
       => /\ tapGain = IF device # 0 /\ outputMute = 0 THEN outputGain ELSE Zero
          /\ observed = device /\ (device = 0 => tapFailed)
    /\ tapGain <= Unity

\* `Failed reads must not unmute audio' (audio-output-volume.h:8): a refresh that comes
\* to the mute of a device that is gone, and was muted, passes silence on.
FailedReadsStaySilent ==
    [][refresh.step = "mute" /\ device = 0 /\ outputMute # 0 /\ refresh'.step # "mute"
         => refresh'.gain = Zero]_audioControlsVars
====
