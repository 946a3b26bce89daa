---- MODULE MCTransport ----
(* The endpoint and its camera lane; `probe' is the one that runs.  The lane starts *)
(* when the endpoint is ready and shares no state with the threads that start and    *)
(* stop it.                                                                          *)
EXTENDS NativeEndpoint, CameraLane

VARIABLE probe

MCInit ==
    /\ probe \in {"endpoint", "camera"} /\ Init /\ CameraInit
    /\ probe = "camera" => config = CHOOSE c \in Configs : TRUE
MCNext ==
    \/ probe = "endpoint" /\ Next /\ UNCHANGED <<cameraVars, probe>>
    \/ probe = "camera" /\ CameraNext /\ UNCHANGED <<vars, probe>>
MCSpec == MCInit /\ [][MCNext]_<<vars, cameraVars, probe>>
====
