--------------------------- MODULE NativeEndpoint ---------------------------
(***************************************************************************)
(* Lifecycle of one native transport endpoint                              *)
(* (protocol/plank-transport/src/native_ffi.rs): the C entry points start, *)
(* stop, destroy, wait_ready, approve_peer_certificate and                 *)
(* authorize_session, called from any number of application threads, and   *)
(* the worker thread that drives one QUIC connection from establishment to *)
(* shutdown.                                                               *)
(*                                                                         *)
(* Grain: one step per access to something two threads share: the status   *)
(* mutex, the `stop' flag, the worker mutex, a Notify.  Connections,       *)
(* certificates and media are reduced to "the operation goes on, ends, or  *)
(* fails".                                                                 *)
(***************************************************************************)
EXTENDS Naturals

CONSTANT Callers        \* application threads that use the endpoint

VARIABLES
  config,       \* what create() derived from the parsed configuration
  state,        \* NativeStatus.state
  error,        \* NativeStatus.error, reduced to who reported it
  stop,         \* NativeShared.stop
  certificate,  \* NativeShared.peer_certificate is not empty
  approved,     \* peer_certificate_approved
  approvePermit,    \* a permit is stored in peer_certificate_approved_notify
  authorized,   \* session_authorized
  authorizePermit,  \* a permit is stored in session_authorized_notify
  holder,       \* the thread that holds the worker mutex, or Nobody
  slot,         \* the worker slot holds a join handle
  wpc,          \* where the worker thread is
  watch,        \* the shutdown_requested() future of the pending until_shutdown
  result,       \* what the run_* future returned to finish_worker
  alive,        \* destroy has not consumed the endpoint
  pc,           \* where each caller is
  parked        \* callers asleep on state_changed

Nobody == "nobody"

status == <<state, error, parked>>
notifies == <<approvePermit, authorizePermit>>
vars == <<config, state, error, stop, certificate, approved, approvePermit,
          authorized, authorizePermit, holder, slot, wpc, watch, result,
          alive, pc, parked>>

States == {"Idle", "Starting", "PeerValidation", "SetupReady", "Ready",
           "Stopping", "Stopped", "Failed"}
Terminal == {"Stopped", "Failed"}
Errors == {"none", "spawn", "runtime", "operation", "peer_closed", "panicked"}

\* A Server never asks for approval; a Client asks unless it pinned a hash.
Configs == {c \in [mode : {"server", "client"}, setup : BOOLEAN, approval : BOOLEAN] :
              c.mode = "server" => ~c.approval}

\* Points of the operation that accept/connect and hold_* perform, and of every
\* operation run under until_shutdown.
Validating == {"validate_test", "validate_arm", "validating", "validated"}
SettingUp == {"setup_test", "setup_arm", "authorizing", "promote"}
Operating == {"connect", "connected", "ready"} \cup Validating \cup SettingUp
Cancellable == Operating \cup {"load"}
WatchPoints == {"none", "registered", "signalled", "armed", "notified"}
WorkerPoints == Cancellable \cup
  {"none", "build", "bind", "drain", "finish", "check_stop", "set_stopped",
   "set_failed", "done", "panicked"}
Exited == {"done", "panicked"}

StartPoints == {"start_lock", "start_check", "start_spawn"}
StopPoints == {"stop_lock", "stop_read", "stop_idle", "stop_stopping", "stop_store",
               "stop_notify", "stop_join", "stop_panic", "stop_final", "stop_unlock"}
CallerPoints == {"idle", "wait", "approve_check", "approve_swap", "approve_notify",
                 "authorize_check", "authorize_swap", "authorize_notify"}
                \cup StartPoints \cup StopPoints
\* Points at which a caller owns the worker mutex.
Holding == (StartPoints \ {"start_lock"}) \cup (StopPoints \ {"stop_lock"})

ASSUME CallersAssumption == Nobody \notin Callers

Init ==
  /\ config \in Configs
  /\ state = "Idle" /\ error = "none" /\ stop = FALSE
  /\ certificate = FALSE
  /\ approved = FALSE /\ approvePermit = FALSE
  /\ authorized = FALSE /\ authorizePermit = FALSE
  /\ holder = Nobody /\ slot = FALSE
  /\ wpc = "none" /\ watch = "none" /\ result = "none"
  /\ alive = TRUE
  /\ pc = [c \in Callers |-> "idle"]
  /\ parked = {}

-----------------------------------------------------------------------------
(* NativeShared.                                                           *)

\* Mutation: only a terminal state is protected; setup may overwrite Stopping.
SettableWhileStopping(s) == state \notin Terminal

\* A finished or stopping endpoint is never advertised as anything else.
Settable(s) ==
  /\ state \notin Terminal
  /\ state = "Stopping" => s = "Stopped"

\* Mutation: the write without the wakeup.
SetStateSilently(s) ==
  /\ state' = IF Settable(s) THEN s ELSE state
  /\ UNCHANGED <<error, parked>>

\* set_state: the write, then the wakeup of every wait_ready.
SetState(s) ==
  IF Settable(s)
  THEN state' = s /\ parked' = {} /\ UNCHANGED error
  ELSE UNCHANGED status

\* Notify::notify_waiters leaves no permit: only a future that is already
\* registered hears it.
NotifyStop ==
  watch' = CASE watch = "registered" -> "signalled"
             [] watch = "armed" -> "notified"
             [] OTHER -> watch

\* fail: the write, then notify_all.
Fail(why) ==
  /\ state' = "Failed" /\ error' = why /\ parked' = {}
  /\ NotifyStop

Goto(c, point) == pc' = [pc EXCEPT ![c] = point]

-----------------------------------------------------------------------------
(* plank_transport_native_endpoint_start                                   *)

worker == <<wpc, watch, result>>
shared == <<stop, certificate, approved, authorized, notifies>>

CallStart(c) ==
  /\ alive /\ pc[c] = "idle"
  /\ Goto(c, "start_lock")
  /\ UNCHANGED <<config, status, shared, holder, slot, worker, alive>>

StartLock(c) ==
  /\ pc[c] = "start_lock" /\ holder = Nobody
  /\ holder' = c
  /\ Goto(c, "start_check")
  /\ UNCHANGED <<config, status, shared, slot, worker, alive>>

\* INVALID_STATE unless Idle; only a holder of the mutex leaves Idle, so the
\* test and the set_state are one step.
StartCheck(c) ==
  /\ pc[c] = "start_check"
  /\ IF state = "Idle"
     THEN SetState("Starting") /\ Goto(c, "start_spawn") /\ UNCHANGED holder
     ELSE Goto(c, "idle") /\ holder' = Nobody /\ UNCHANGED status
  /\ UNCHANGED <<config, shared, slot, worker, alive>>

\* The thread is created and its handle stored before the mutex is released.
StartSpawn(c) ==
  /\ pc[c] = "start_spawn"
  /\ \/ wpc' = "build" /\ slot' = TRUE /\ UNCHANGED <<status, watch>>
     \/ Fail("spawn") /\ UNCHANGED <<wpc, slot>>
  /\ holder' = Nobody
  /\ Goto(c, "idle")
  /\ UNCHANGED <<config, shared, result, alive>>

-----------------------------------------------------------------------------
(* stop_endpoint, from stop and from destroy                               *)

CallStop(c) ==
  /\ alive /\ pc[c] = "idle"
  /\ Goto(c, "stop_lock")
  /\ UNCHANGED <<config, status, shared, holder, slot, worker, alive>>

\* Box::from_raw: the header requires that no other call is under way.
CallDestroy(c) ==
  /\ alive /\ \A d \in Callers : pc[d] = "idle"
  /\ alive' = FALSE
  /\ Goto(c, "stop_lock")
  /\ UNCHANGED <<config, status, shared, holder, slot, worker>>

StopLock(c) ==
  /\ pc[c] = "stop_lock" /\ holder = Nobody
  /\ holder' = c
  /\ Goto(c, "stop_read")
  /\ UNCHANGED <<config, status, shared, slot, worker, alive>>

StopRead(c) ==
  /\ pc[c] = "stop_read"
  /\ Goto(c, CASE state = "Idle" -> "stop_idle"
               [] state \in Terminal -> "stop_join"
               [] OTHER -> "stop_stopping")
  /\ UNCHANGED <<config, status, shared, holder, slot, worker, alive>>

StopIdle(c) ==
  /\ pc[c] = "stop_idle"
  /\ SetState("Stopped")
  /\ Goto(c, "stop_join")
  /\ UNCHANGED <<config, shared, holder, slot, worker, alive>>

StopStopping(c) ==
  /\ pc[c] = "stop_stopping"
  /\ SetState("Stopping")
  /\ Goto(c, "stop_store")
  /\ UNCHANGED <<config, shared, holder, slot, worker, alive>>

StopStore(c) ==
  /\ pc[c] = "stop_store"
  /\ stop' = TRUE
  /\ Goto(c, "stop_notify")
  /\ UNCHANGED <<config, status, certificate, approved, authorized, notifies,
                 holder, slot, worker, alive>>

\* notify_all, which also sends the loops that sleep until an approval or an
\* authorization back to test their flag.
StopNotify(c) ==
  /\ pc[c] = "stop_notify"
  /\ NotifyStop
  /\ wpc' = CASE wpc = "validating" -> "validate_test"
              [] wpc = "authorizing" -> "setup_test"
              [] OTHER -> wpc
  /\ parked' = {}
  /\ Goto(c, "stop_join")
  /\ UNCHANGED <<config, state, error, shared, holder, slot, result, alive>>

\* Mutation: the handle is dropped, which detaches the thread.
StopDetach(c) ==
  /\ pc[c] = "stop_join"
  /\ slot' = FALSE
  /\ Goto(c, "stop_final")
  /\ UNCHANGED <<config, status, shared, holder, worker, alive>>

\* take() and join(): blocks until the worker thread has exited.
StopJoin(c) ==
  /\ pc[c] = "stop_join"
  /\ slot => wpc \in Exited
  /\ slot' = FALSE
  /\ Goto(c, IF slot /\ wpc = "panicked" THEN "stop_panic" ELSE "stop_final")
  /\ UNCHANGED <<config, status, shared, holder, worker, alive>>

StopPanic(c) ==
  /\ pc[c] = "stop_panic"
  /\ Fail("panicked")
  /\ Goto(c, "stop_unlock")
  /\ UNCHANGED <<config, shared, holder, slot, wpc, result, alive>>

\* `if state() != Failed { set_state(Stopped) }'
StopFinal(c) ==
  /\ pc[c] = "stop_final"
  /\ IF state # "Failed" THEN SetState("Stopped") ELSE UNCHANGED status
  /\ Goto(c, "stop_unlock")
  /\ UNCHANGED <<config, shared, holder, slot, worker, alive>>

StopUnlock(c) ==
  /\ pc[c] = "stop_unlock"
  /\ holder' = Nobody
  /\ Goto(c, "idle")
  /\ UNCHANGED <<config, status, shared, slot, worker, alive>>

-----------------------------------------------------------------------------
(* wait_ready                                                              *)

\* The test and the sleep are atomic: both hold the status mutex.
CallWaitReady(c) ==
  /\ alive /\ pc[c] = "idle"
  /\ state \in {"Idle", "Starting", "PeerValidation", "SetupReady"}
  /\ Goto(c, "wait")
  /\ parked' = parked \cup {c}
  /\ UNCHANGED <<config, state, error, shared, holder, slot, worker, alive>>

\* Woken: return the state, or sleep again while it is still a setup state.
WaitWake(c) ==
  /\ pc[c] = "wait" /\ c \notin parked
  /\ IF state \in {"Idle", "Starting", "PeerValidation", "SetupReady"}
     THEN parked' = parked \cup {c} /\ UNCHANGED pc
     ELSE Goto(c, "idle") /\ UNCHANGED parked
  /\ UNCHANGED <<config, state, error, shared, holder, slot, worker, alive>>

WaitTimeout(c) ==
  /\ pc[c] = "wait"
  /\ Goto(c, "idle")
  /\ parked' = parked \ {c}
  /\ UNCHANGED <<config, state, error, shared, holder, slot, worker, alive>>

-----------------------------------------------------------------------------
(* approve_peer_certificate and authorize_session: a check of the state, a *)
(* swap of the flag, a permit for the worker; other threads run between.   *)

CallApprove(c) ==
  /\ alive /\ pc[c] = "idle"
  /\ config.mode = "client" /\ config.approval
  /\ Goto(c, "approve_check")
  /\ UNCHANGED <<config, status, shared, holder, slot, worker, alive>>

\* Mutation: the certificate may be approved before it has been shown.
ApproveCheckAnyState(c) ==
  /\ pc[c] = "approve_check"
  /\ Goto(c, "approve_swap")
  /\ UNCHANGED <<config, status, shared, holder, slot, worker, alive>>

ApproveCheck(c) ==
  /\ pc[c] = "approve_check"
  /\ Goto(c, IF state = "PeerValidation" /\ certificate THEN "approve_swap" ELSE "idle")
  /\ UNCHANGED <<config, status, shared, holder, slot, worker, alive>>

ApproveSwap(c) ==
  /\ pc[c] = "approve_swap"
  /\ approved' = TRUE
  /\ Goto(c, IF approved THEN "idle" ELSE "approve_notify")
  /\ UNCHANGED <<config, status, stop, certificate, authorized, notifies,
                 holder, slot, worker, alive>>

\* Mutation: notify_waiters, which only reaches a worker that is asleep already.
ApproveNotifyWaiters(c) ==
  /\ pc[c] = "approve_notify"
  /\ approvePermit' = (approvePermit \/ wpc = "validating")
  /\ Goto(c, "idle")
  /\ UNCHANGED <<config, status, stop, certificate, approved, authorized,
                 authorizePermit, holder, slot, worker, alive>>

ApproveNotify(c) ==
  /\ pc[c] = "approve_notify"
  /\ approvePermit' = TRUE
  /\ Goto(c, "idle")
  /\ UNCHANGED <<config, status, stop, certificate, approved, authorized,
                 authorizePermit, holder, slot, worker, alive>>

CallAuthorize(c) ==
  /\ alive /\ pc[c] = "idle"
  /\ config.setup
  /\ Goto(c, "authorize_check")
  /\ UNCHANGED <<config, status, shared, holder, slot, worker, alive>>

AuthorizeCheck(c) ==
  /\ pc[c] = "authorize_check"
  /\ Goto(c, IF state = "SetupReady" THEN "authorize_swap" ELSE "idle")
  /\ UNCHANGED <<config, status, shared, holder, slot, worker, alive>>

AuthorizeSwap(c) ==
  /\ pc[c] = "authorize_swap"
  /\ authorized' = TRUE
  /\ Goto(c, IF authorized THEN "idle" ELSE "authorize_notify")
  /\ UNCHANGED <<config, status, stop, certificate, approved, notifies,
                 holder, slot, worker, alive>>

AuthorizeNotify(c) ==
  /\ pc[c] = "authorize_notify"
  /\ authorizePermit' = TRUE
  /\ Goto(c, "idle")
  /\ UNCHANGED <<config, status, stop, certificate, approved, authorized,
                 approvePermit, holder, slot, worker, alive>>

-----------------------------------------------------------------------------
(* The worker thread.                                                      *)

callers == <<holder, slot, alive, pc>>

\* The run_* future returns r: a Server first closes and drains its endpoint.
Return(r) ==
  /\ wpc' = IF config.mode = "server" /\ wpc \in Operating THEN "drain" ELSE "finish"
  /\ result' = r
  /\ watch' = "none"

WorkerBuild ==
  /\ wpc = "build"
  /\ \/ /\ wpc' = IF config.mode = "server" THEN "load" ELSE "connect"
        /\ UNCHANGED <<status, watch>>
     \/ Fail("runtime") /\ wpc' = "done"
  /\ UNCHANGED <<config, shared, callers, result>>

\* shutdown_requested: register, then test the durable predicate, then sleep.
WatchRegister ==
  /\ wpc \in Cancellable /\ watch \in {"none", "notified"}
  /\ watch' = "registered"
  /\ UNCHANGED <<config, status, shared, callers, wpc, result>>

\* Mutation: sleep on the notification without testing the durable flag.
WatchWithoutCheck ==
  /\ wpc \in Cancellable /\ watch \in {"registered", "signalled"}
  /\ IF watch = "signalled"
     THEN Return("ok")
     ELSE watch' = "armed" /\ UNCHANGED <<wpc, result>>
  /\ UNCHANGED <<config, status, shared, callers>>

WatchCheck ==
  /\ wpc \in Cancellable /\ watch \in {"registered", "signalled"}
  /\ IF stop \/ state = "Failed"
     THEN Return("ok")
     ELSE /\ watch' = IF watch = "registered" THEN "armed" ELSE "notified"
          /\ UNCHANGED <<wpc, result>>
  /\ UNCHANGED <<config, status, shared, callers>>

\* until_shutdown polls the operation only while its shutdown future pends; a
\* notification may arrive while the operation is being polled.
Polled(point) == wpc = point /\ watch \in {"armed", "notified"}

WorkerLoad ==
  /\ Polled("load")
  /\ \/ wpc' = "bind" /\ watch' = "none" /\ UNCHANGED result
     \/ Return("error")
  /\ UNCHANGED <<config, status, shared, callers>>

WorkerBind ==
  /\ wpc = "bind"
  /\ \/ wpc' = "connect" /\ UNCHANGED <<watch, result>>
     \/ Return("error")
  /\ UNCHANGED <<config, status, shared, callers>>

\* accept_* or connect_*; a Client publishes the certificate before the state.
WorkerConnect ==
  /\ Polled("connect")
  /\ wpc' = "connected"
  /\ certificate' = (config.mode = "client")
  /\ UNCHANGED <<config, status, stop, approved, authorized, notifies, callers,
                 watch, result>>

\* What hold_* advertises next, once the certificate needs no (more) approval.
Advertise ==
  IF config.setup
  THEN SetState("SetupReady") /\ wpc' = "setup_test"
  ELSE SetState("Ready") /\ wpc' = "ready"

WorkerConnected ==
  /\ Polled("connected")
  /\ IF config.mode = "client" /\ (config.setup \/ config.approval)
     THEN SetState("PeerValidation") /\ wpc' = "validate_test"
     ELSE Advertise
  /\ UNCHANGED <<config, shared, callers, watch, result>>

ValidateTest ==
  /\ Polled("validate_test")
  /\ wpc' = IF approved THEN "validated" ELSE "validate_arm"
  /\ UNCHANGED <<config, status, shared, callers, watch, result>>

\* The notified() future registers, and pends unless a permit is stored.
ValidateArm ==
  /\ Polled("validate_arm")
  /\ wpc' = "validating"
  /\ UNCHANGED <<config, status, shared, callers, watch, result>>

ValidateWake ==
  /\ Polled("validating") /\ approvePermit
  /\ approvePermit' = FALSE
  /\ wpc' = "validate_test"
  /\ UNCHANGED <<config, status, stop, certificate, approved, authorized,
                 authorizePermit, callers, watch, result>>

WorkerValidated ==
  /\ Polled("validated")
  /\ Advertise
  /\ UNCHANGED <<config, shared, callers, watch, result>>

\* Mutation: any wakeup of the setup loop counts as an authorization.
SetupTestAnyWakeup ==
  /\ Polled("setup_test")
  /\ wpc' = "promote"
  /\ UNCHANGED <<config, status, shared, callers, watch, result>>

SetupTest ==
  /\ Polled("setup_test")
  /\ wpc' = IF authorized THEN "promote" ELSE "setup_arm"
  /\ UNCHANGED <<config, status, shared, callers, watch, result>>

SetupArm ==
  /\ Polled("setup_arm")
  /\ wpc' = "authorizing"
  /\ UNCHANGED <<config, status, shared, callers, watch, result>>

SetupWake ==
  /\ Polled("authorizing") /\ authorizePermit
  /\ authorizePermit' = FALSE
  /\ wpc' = "setup_test"
  /\ UNCHANGED <<config, status, stop, certificate, approved, authorized,
                 approvePermit, callers, watch, result>>

\* promote_setup_*: media and input endpoints opened on the same connection.
WorkerPromote ==
  /\ Polled("promote")
  /\ SetState("Ready")
  /\ wpc' = "ready"
  /\ UNCHANGED <<config, shared, callers, watch, result>>

\* Establishment and promotion end with an error at the latest when
\* handshake_timeout expires.
EstablishFails ==
  /\ Polled("connect") \/ Polled("promote")
  /\ Return("error")
  /\ UNCHANGED <<config, status, shared, callers>>

\* The peer closes (Ok or Err), or a lane ends.
ConnectionEnds ==
  /\ \E point \in {"validating", "authorizing", "ready"} : Polled(point)
  /\ \E r \in {"ok", "error"} : Return(r)
  /\ UNCHANGED <<config, status, shared, callers>>

WorkerPanic ==
  /\ \E point \in Operating : Polled(point)
  /\ wpc' = "panicked" /\ watch' = "none"
  /\ UNCHANGED <<config, status, shared, callers, result>>

\* CONNECTION_CLOSE_DRAIN bounds it.
WorkerDrain ==
  /\ wpc = "drain"
  /\ wpc' = "finish"
  /\ UNCHANGED <<config, status, shared, callers, watch, result>>

\* finish_worker: three accesses to shared state.
FinishCheck ==
  /\ wpc = "finish"
  /\ wpc' = IF state = "Failed" THEN "done" ELSE "check_stop"
  /\ UNCHANGED <<config, status, shared, callers, watch, result>>

FinishStop ==
  /\ wpc = "check_stop"
  /\ wpc' = IF stop THEN "set_stopped" ELSE "set_failed"
  /\ UNCHANGED <<config, status, shared, callers, watch, result>>

FinishStopped ==
  /\ wpc = "set_stopped"
  /\ SetState("Stopped")
  /\ wpc' = "done"
  /\ UNCHANGED <<config, shared, callers, watch, result>>

FinishFailed ==
  /\ wpc = "set_failed"
  /\ Fail(IF result = "error" THEN "operation" ELSE "peer_closed")
  /\ wpc' = "done"
  /\ UNCHANGED <<config, shared, callers, result>>

-----------------------------------------------------------------------------

\* Steps the worker takes on its own, whatever the peer does.
WorkerStep ==
  \/ WorkerBuild \/ WatchRegister \/ WatchCheck \/ WorkerLoad \/ WorkerBind
  \/ WorkerConnect \/ WorkerConnected \/ ValidateTest \/ ValidateArm
  \/ ValidateWake \/ WorkerValidated \/ SetupTest \/ SetupArm \/ SetupWake
  \/ WorkerPromote
  \/ EstablishFails \/ WorkerDrain \/ FinishCheck \/ FinishStop
  \/ FinishStopped \/ FinishFailed

Call(c) ==
  \/ CallStart(c) \/ CallStop(c) \/ CallDestroy(c) \/ CallWaitReady(c)
  \/ CallApprove(c) \/ CallAuthorize(c)

\* Steps of a call under way.
CallerStep(c) ==
  \/ StartLock(c) \/ StartCheck(c) \/ StartSpawn(c)
  \/ StopLock(c) \/ StopRead(c) \/ StopIdle(c) \/ StopStopping(c) \/ StopStore(c)
  \/ StopNotify(c) \/ StopJoin(c) \/ StopPanic(c) \/ StopFinal(c) \/ StopUnlock(c)
  \/ WaitWake(c)
  \/ ApproveCheck(c) \/ ApproveSwap(c) \/ ApproveNotify(c)
  \/ AuthorizeCheck(c) \/ AuthorizeSwap(c) \/ AuthorizeNotify(c)

\* The endpoint is gone and nobody uses it.
Destroyed ==
  /\ ~alive /\ \A c \in Callers : pc[c] = "idle"
  /\ UNCHANGED vars

Next ==
  \/ WorkerStep \/ ConnectionEnds \/ WorkerPanic
  \/ \E c \in Callers : Call(c) \/ CallerStep(c) \/ WaitTimeout(c)
  \/ Destroyed

Spec == Init /\ [][Next]_vars

\* Threads are scheduled, establishment and drain are bounded by timeouts; the
\* peer never has to act and wait_ready may be called with any timeout.
EndpointFairness ==
  /\ WF_vars(WorkerStep)
  /\ \A c \in Callers : WF_vars(CallerStep(c))

-----------------------------------------------------------------------------
(* Properties.                                                             *)

TypeOK ==
  /\ config \in Configs
  /\ state \in States /\ error \in Errors
  /\ stop \in BOOLEAN /\ certificate \in BOOLEAN
  /\ approved \in BOOLEAN /\ approvePermit \in BOOLEAN
  /\ authorized \in BOOLEAN /\ authorizePermit \in BOOLEAN
  /\ holder \in Callers \cup {Nobody} /\ slot \in BOOLEAN
  /\ wpc \in WorkerPoints /\ watch \in WatchPoints
  /\ result \in {"none", "ok", "error"}
  /\ alive \in BOOLEAN
  /\ pc \in [Callers -> CallerPoints]
  /\ parked \subseteq Callers

\* The worker mutex is held by exactly the thread that is between its lock and
\* its unlock, in start and in stop_endpoint.
MutexInv == \A c \in Callers : pc[c] \in Holding <=> holder = c

\* Start publishes the join handle before a concurrent stop can take it: the slot
\* holds a handle exactly while a spawned worker has not been joined, and a worker
\* that panicked is reported by whoever joins it.
SlotInv ==
  /\ slot => wpc # "none"
  /\ ~slot => wpc \in {"none"} \cup Exited
  /\ state = "Idle" => wpc = "none"
  /\ wpc = "panicked" =>
       (state \in Terminal <=> ~slot /\ \A c \in Callers : pc[c] # "stop_panic")

\* How far the caller that holds the mutex has come, against the state.
StopInv == \A c \in Callers :
  /\ pc[c] = "start_spawn" => state = "Starting" /\ wpc = "none"
  /\ pc[c] = "stop_idle" => state = "Idle"
  /\ pc[c] = "stop_stopping" => state # "Idle"
  /\ pc[c] = "stop_store" => state \in {"Stopping"} \cup Terminal
  /\ pc[c] \in {"stop_notify", "stop_join", "stop_panic", "stop_final", "stop_unlock"} =>
       stop \/ state \in Terminal
  /\ pc[c] = "stop_panic" => wpc = "panicked"
  /\ pc[c] \in {"stop_panic", "stop_final", "stop_unlock"} => ~slot
  /\ pc[c] = "stop_unlock" => state \in Terminal

\* A terminal state is published by the worker's last step, or when there is no
\* worker to join any more.
EndInv ==
  /\ state \in Terminal => wpc \in {"none"} \cup Exited
  /\ wpc = "done" => state \in Terminal
  /\ wpc = "set_stopped" => stop
  /\ stop => state \in {"Stopping"} \cup Terminal
  /\ error # "none" <=> state = "Failed"

\* The state each stretch of the worker advertises; a stop may replace it.
Advertised(points, s) == wpc \in points => state \in {s, "Stopping"}

\* How far the worker has come, against the advertised state and the decisions
\* the application has taken.
Validates == config.mode = "client" /\ (config.setup \/ config.approval)

PathInv ==
  /\ Advertised({"build", "load", "bind", "connect", "connected"}, "Starting")
  /\ Advertised(Validating, "PeerValidation")
  /\ Advertised(SettingUp, "SetupReady")
  /\ Advertised({"ready"}, "Ready")
  /\ wpc = "connected" /\ config.mode = "client" => certificate
  /\ wpc \in Validating \/ state = "PeerValidation" =>
       Validates /\ certificate
  /\ wpc = "validated" => approved
  /\ wpc \in SettingUp \/ state = "SetupReady" =>
       config.setup /\ (Validates => approved)
  /\ wpc = "promote" => authorized

\* What a caller inside approve or authorize has seen stays true until it swaps.
DecisionInv ==
  /\ approved => config.approval
  /\ authorized => config.setup /\ (Validates => approved)
  /\ \A c \in Callers :
       /\ pc[c] \in {"approve_check", "approve_swap"} => config.approval
       /\ pc[c] = "approve_swap" => state \notin {"Idle", "Starting"}
       /\ pc[c] \in {"authorize_check", "authorize_swap"} => config.setup
       /\ pc[c] = "authorize_swap" =>
            state \notin {"Idle", "Starting", "PeerValidation"} /\ (Validates => approved)

\* Nothing of the endpoint is in use once a destroy has finished with it.
DestroyInv ==
  ~alive => \A c, d \in Callers : pc[c] # "idle" /\ pc[d] # "idle" => c = d

\* Ready (video, audio and input are served) is only ever advertised when the
\* application approved the certificate it was shown and, for a setup endpoint,
\* authorized the session (hold_client, hold_setup_server, hold_setup_client).
ReadyInv ==
  state = "Ready" \/ wpc = "ready" =>
    /\ Validates => approved
    /\ config.setup => authorized

\* Only an explicit local stop may become Stopped (finish_worker's comment): the
\* stop flag is up, or no worker was ever started.
StoppedOnlyByLocalStop == state = "Stopped" => stop \/ wpc = "none"

Inv ==
  /\ TypeOK /\ MutexInv /\ SlotInv /\ StopInv /\ EndInv /\ PathInv
  /\ DecisionInv /\ DestroyInv /\ ReadyInv /\ StoppedOnlyByLocalStop

\* A stop (or destroy) returns only with a final state published and no worker
\* thread left behind, whatever start, failure or panic it raced with.
StopReturnsQuiescent ==
  \A c \in Callers : pc[c] = "stop_unlock" =>
    state \in Terminal /\ wpc \in {"none"} \cup Exited /\ ~slot

\* `Failure state and its original error are preserved' and `completed setup cannot
\* revive a stopping, stopped or failed endpoint', over every pair of steps.
NoRevival ==
  [][/\ state \in Terminal => state' = state /\ error' = error
     /\ state = "Stopping" => state' \in {"Stopping"} \cup Terminal]_vars

\* An exact-fingerprint Client `proceeds directly to READY' (plank_transport.h): it
\* never pauses for an approval, which approve would refuse it.
FingerprintSkipsValidation ==
  config.mode = "client" /\ ~config.approval => state # "PeerValidation"

\* Contract: every step of the threads is a step the header allows, or none.
Contract == INSTANCE EndpointContract WITH phase <- state, cause <- error
RefinesContract == Contract!Spec

\* A stop that owns the worker mutex returns: no wakeup that cancels the worker is
\* lost, whatever phase the worker is in and however silent the peer.
StopCompletes == \A c \in Callers : pc[c] \in Holding ~> pc[c] = "idle"

\* A wait_ready caller hears of the end of the endpoint without its own timeout.
WaitersWake == \A c \in Callers :
  (pc[c] = "wait" /\ state \in Terminal) ~> (pc[c] = "idle")

\* An approval, or an authorization, that succeeded while the worker was about to
\* sleep still moves the worker on.
DecisionsTakeEffect ==
  /\ (approved /\ state = "PeerValidation") ~> (state # "PeerValidation" \/ wpc = "panicked")
  /\ (authorized /\ state = "SetupReady") ~> (state # "SetupReady" \/ wpc = "panicked")
=============================================================================
