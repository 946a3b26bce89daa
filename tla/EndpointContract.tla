-------------------------- MODULE EndpointContract --------------------------
(***************************************************************************)
(* What plank_transport.h promises about the state an application observes *)
(* through plank_transport_native_endpoint_state, without threads, locks   *)
(* or wakeups:                                                             *)
(*  - setup only moves forward, and Ready is reached only with the peer    *)
(*    certificate approved and the session authorized where the            *)
(*    configuration asks for them;                                         *)
(*  - Stopped is the result of a local stop and of nothing else;           *)
(*  - Stopped and Failed, with the recorded error, are final.              *)
(***************************************************************************)
VARIABLES
  config,     \* [mode, setup, approval], fixed at creation
  phase,      \* the advertised endpoint state
  cause,      \* "none" until the endpoint fails, then who failed
  approved,   \* the application approved the peer certificate
  authorized  \* the application authorized the session

vars == <<config, phase, cause, approved, authorized>>

Causes == {"spawn", "runtime", "operation", "peer_closed", "panicked"}
Active == {"Starting", "PeerValidation", "SetupReady", "Ready"}

\* A Client looks at the certificate before anything else unless it pinned one
\* and opens a streaming session.
Validates == config.mode = "client" /\ (config.setup \/ config.approval)

Init ==
  /\ config \in {c \in [mode : {"server", "client"}, setup : BOOLEAN, approval : BOOLEAN] :
                   c.mode = "server" => ~c.approval}
  /\ phase = "Idle" /\ cause = "none"
  /\ approved = FALSE /\ authorized = FALSE

Move(from, to) == phase = from /\ phase' = to /\ UNCHANGED <<config, cause, approved, authorized>>

Start == Move("Idle", "Starting")

Validate == Validates /\ Move("Starting", "PeerValidation")

Setup ==
  /\ config.setup
  /\ \/ ~Validates /\ Move("Starting", "SetupReady")
     \/ approved /\ Move("PeerValidation", "SetupReady")

Open ==
  \/ config.setup /\ authorized /\ Move("SetupReady", "Ready")
  \/ ~config.setup /\ ~Validates /\ Move("Starting", "Ready")
  \/ ~config.setup /\ approved /\ Move("PeerValidation", "Ready")

Stop ==
  \/ Move("Idle", "Stopped")
  \/ \E p \in Active : Move(p, "Stopping")
  \/ Move("Stopping", "Stopped")

Fail ==
  /\ phase \in Active \cup {"Stopping"}
  /\ phase' = "Failed" /\ cause' \in Causes
  /\ UNCHANGED <<config, approved, authorized>>

\* The application decides while the endpoint waits; its decision may be recorded
\* after a concurrent stop or failure, and never matters then.
Approve ==
  /\ config.approval /\ ~approved /\ phase \notin {"Idle", "Starting"}
  /\ approved' = TRUE
  /\ UNCHANGED <<config, phase, cause, authorized>>

Authorize ==
  /\ config.setup /\ ~authorized /\ (Validates => approved)
  /\ phase \notin {"Idle", "Starting", "PeerValidation"}
  /\ authorized' = TRUE
  /\ UNCHANGED <<config, phase, cause, approved>>

Next == Start \/ Validate \/ Setup \/ Open \/ Stop \/ Fail \/ Approve \/ Authorize

Spec == Init /\ [][Next]_vars
=============================================================================
