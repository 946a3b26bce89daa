---- MODULE HostRuntime ----
(***************************************************************************)
(* src/apps/host/macos/session/host-runtime.m with the parts of            *)
(* media/preview-session.m and auth/authentication-session.m it drives:    *)
(* display preparation, launch, takeover, delayed release and shutdown.    *)
(* Each @synchronized block, each block on the stream's queue and each     *)
(* display call is a step; what lies between may interleave.               *)
(*                                                                         *)
(* A client stands for its peer, for the setup token it holds and, once    *)
(* launched, for the session id; all log in to the account of the desktop. *)
(* Consent to end an earlier session of a client thus counts for its next. *)
(* Deadlines and timers fire at any time after they are set.               *)
(***************************************************************************)
EXTENDS Integers, FiniteSets

CONSTANTS
    Clients,
    Nobody,         \* nil
    MaxGeneration,  \* bound: display generations
    MaxTimeouts     \* bound: takeover requests that time out

\* Calls of releaseDisplayGeneration that are under way; a client is not one of them.
ReleaseCalls == [token : Clients \cup {Nobody}, gen : Int]

ASSUME HostRuntimeAssumption ==
    /\ Nobody \notin Clients /\ (Clients \cup {Nobody}) \cap ReleaseCalls = {}
    /\ {MaxGeneration, MaxTimeouts} \subseteq Nat

VARIABLES
    mirrors,      \* releaseDisplay is set: the configuration mirrors the Host's displays
    tokens,       \* clients whose setup token still authorizes
    reservation,  \* the session store's _takeoverToken
    takeover,     \* the runtime's _takeoverToken
    op,           \* _displayOperation: who holds it
    displayGeneration, prepared, restoreFailed,
    screen,       \* whose geometry the screen has, Nobody for its own
    stream,       \* [token, state, screen, release, ends, takenBy]; takenBy is whose
                  \* takeover ended it, until that reservation lapses
    request,      \* [Clients -> [pc, consent]]: display requests
    drained,      \* [Clients -> result of takeOverWithToken, or "none"]
    releases,     \* blocks that will call releaseDisplayGeneration: [token, gen], the
                  \* token whose screen it is meant for
    timeouts,     \* takeover requests that timed out
    shutdown      \* "no", "asked", "draining", "releasing", "done"

runtimeVars == <<mirrors, tokens, reservation, takeover, op, displayGeneration, prepared,
                 restoreFailed, screen, stream, request, drained, releases, timeouts, shutdown>>

NoStream == [token |-> Nobody, state |-> "none", screen |-> Nobody, release |-> FALSE,
             ends |-> FALSE, takenBy |-> Nobody]
AtShutdown == [token |-> Nobody, gen |-> -1]      \* UINT64_MAX, for any generation
stopping == shutdown # "no"
Live == stream.state \in {"running", "stopping"}
LeaseHeld == stream.state = "running"

RuntimeInit ==
    /\ mirrors \in BOOLEAN
    /\ tokens = Clients /\ reservation = Nobody /\ takeover = Nobody
    /\ op = Nobody /\ displayGeneration = 0 /\ prepared = FALSE /\ restoreFailed = FALSE
    /\ screen = Nobody /\ stream = NoStream /\ releases = {} /\ timeouts = 0 /\ shutdown = "no"
    /\ request = [t \in Clients |-> [pc |-> "idle", consent |-> Nobody]]
    /\ drained = [t \in Clients |-> "none"]

-----------------------------------------------------------------------------
(* Helpers *)

\* takeoverReservedForAnotherToken, which also forgets a reservation that no longer
\* authorizes.
KeptTakeover == IF takeover \in tokens THEN takeover ELSE Nobody
ReservedForAnother(t) == KeptTakeover \notin {Nobody, t}

\* valid(): the token still authorizes and the runtime is not stopping.
Valid(t) == t \in tokens /\ ~stopping

\* The takeover of t no longer binds anybody.
Lapse(t) == [stream EXCEPT !.takenBy = IF @ = t THEN Nobody ELSE @]

\* finishDisplayOperation, with the request's answer.
Answer(t) ==
    /\ op' = Nobody
    /\ request' = [request EXCEPT ![t] = [pc |-> "idle", consent |-> Nobody]]

\* restoreReservedDisplay.
Restore(restored) ==
    /\ displayGeneration' = displayGeneration + 1
    /\ LET ok == ~prepared \/ restored
       IN  /\ restoreFailed' = ~ok
           /\ prepared' = (prepared /\ ~ok)
           /\ screen' = IF prepared /\ ok THEN Nobody ELSE screen

-----------------------------------------------------------------------------
(* prepareDisplayRequest *)

\* The request is checked and the display operation reserved.
PrepareReserve(t, consent) ==
    /\ Valid(t) /\ op = Nobody /\ displayGeneration < MaxGeneration
    /\ op' = t /\ request' = [request EXCEPT ![t] = [pc |-> "decide", consent |-> consent]]
    /\ UNCHANGED <<mirrors, tokens, reservation, takeover, displayGeneration, prepared,
                   restoreFailed, screen, stream, drained, releases, timeouts, shutdown>>

\* Under the lock: 409 unless the client consented to end this very session.
PrepareDecide(t) ==
    /\ request[t].pc = "decide"
    /\ LET consent == request[t].consent
           changed == consent # Nobody /\ consent # stream.token
           conflict == ReservedForAnother(t) \/ (Live /\ consent # stream.token)
           needsTakeover == Live /\ KeptTakeover = Nobody
       IN  /\ takeover' = IF changed THEN takeover ELSE KeptTakeover
           /\ IF changed \/ conflict THEN Answer(t)
              ELSE /\ request' = [request EXCEPT
                        ![t] = [pc |-> IF needsTakeover THEN "reserve" ELSE "restore", consent |-> Nobody]]
                   /\ op' = op
    /\ UNCHANGED <<mirrors, tokens, reservation, displayGeneration, prepared, restoreFailed,
                   screen, stream, drained, releases, timeouts, shutdown>>

\* reserveTakeoverToken, in the session store.
ReserveTakeover(t) ==
    /\ request[t].pc = "reserve"
    /\ IF Valid(t) /\ LeaseHeld /\ reservation \in {Nobody, t}
         THEN /\ reservation' = t
              /\ request' = [request EXCEPT ![t].pc = "record"] /\ op' = op
         ELSE Answer(t) /\ UNCHANGED reservation
    /\ UNCHANGED <<mirrors, tokens, takeover, displayGeneration, prepared, restoreFailed,
                   screen, stream, drained, releases, timeouts, shutdown>>

\* The runtime's own record, and the request to the stream's queue.
RecordTakeover(t) ==
    /\ request[t].pc = "record"
    /\ takeover' = t
    /\ drained' = [drained EXCEPT ![t] = "asked"]
    /\ request' = [request EXCEPT ![t].pc = "wait"]
    /\ UNCHANGED <<mirrors, tokens, reservation, op, displayGeneration, prepared, restoreFailed,
                   screen, stream, releases, timeouts, shutdown>>

\* The wait is over: whatever the stream answers now is heard by nobody.
Unheard(t) == [drained EXCEPT ![t] = IF @ = "asked" THEN "asked" ELSE "none"]

\* Mutation: a request that gave up waiting drops its reservation.
DrainTimesOutForgets(t) ==
    /\ request[t].pc = "wait" /\ drained[t] \in {"asked", "draining"}
    /\ timeouts < MaxTimeouts /\ timeouts' = timeouts + 1
    /\ Answer(t) /\ takeover' = Nobody /\ drained' = Unheard(t)
    /\ UNCHANGED <<mirrors, tokens, reservation, displayGeneration, prepared, restoreFailed,
                   screen, stream, releases, shutdown>>

\* Five seconds without an answer: 503, but the reservation stays for a retry.
DrainTimesOut(t) ==
    /\ request[t].pc = "wait" /\ drained[t] \in {"asked", "draining"}
    /\ timeouts < MaxTimeouts /\ timeouts' = timeouts + 1
    /\ Answer(t) /\ drained' = Unheard(t)
    /\ UNCHANGED <<mirrors, tokens, reservation, takeover, displayGeneration, prepared,
                   restoreFailed, screen, stream, releases, shutdown>>

DrainAnswers(t) ==
    /\ request[t].pc = "wait" /\ drained[t] \in {"accepted", "refused"}
    /\ IF drained[t] = "accepted" /\ Valid(t)
         THEN /\ request' = [request EXCEPT ![t].pc = "restore"]
              /\ UNCHANGED <<op, takeover, stream>>
         ELSE Answer(t) /\ takeover' = Nobody /\ stream' = Lapse(t)
    /\ drained' = Unheard(t)
    /\ UNCHANGED <<mirrors, tokens, reservation, displayGeneration, prepared, restoreFailed,
                   screen, releases, timeouts, shutdown>>

PrepareRestore(t, restored) ==
    /\ request[t].pc = "restore"
    /\ IF Live \/ ~Valid(t)
         THEN Answer(t) /\ UNCHANGED <<displayGeneration, prepared, restoreFailed, screen>>
         ELSE /\ Restore(restored)
              /\ IF restoreFailed' THEN Answer(t)
                 ELSE request' = [request EXCEPT ![t].pc = "prepare"] /\ op' = op
    /\ UNCHANGED <<mirrors, tokens, reservation, takeover, stream, drained, releases, timeouts,
                   shutdown>>

\* prepareDisplay changes the screen, which is to be given back if there is a callback for
\* it; that it failed is seen next.
PrepareScreen(t) ==
    /\ request[t].pc = "prepare"
    /\ prepared' = mirrors /\ screen' = t
    /\ request' = [request EXCEPT ![t].pc = "check"]
    /\ UNCHANGED <<mirrors, tokens, reservation, takeover, op, displayGeneration, restoreFailed,
                   stream, drained, releases, timeouts, shutdown>>

\* The topology and valid() once more: restore, or set the sixty second release of a screen
\* that is to be given back.
PrepareCheck(t, ok, restored) ==
    /\ request[t].pc = "check"
    /\ Answer(t)
    /\ IF ok /\ Valid(t)
         THEN /\ releases' =
                   releases \cup (IF prepared THEN {[token |-> t, gen |-> displayGeneration]} ELSE {})
              /\ UNCHANGED <<displayGeneration, prepared, restoreFailed, screen>>
         ELSE Restore(restored) /\ UNCHANGED releases
    /\ UNCHANGED <<mirrors, tokens, reservation, takeover, stream, drained, timeouts, shutdown>>

-----------------------------------------------------------------------------
(* launch, atomic under the runtime's lock *)

LaunchAdmits(t) ==
    /\ ~stopping /\ op = Nobody /\ ~restoreFailed /\ ~Live
    /\ ~ReservedForAnother(t)
    /\ t \in tokens

\* The stream is made and started, or made and stopped again because a required
\* feature is missing.  Either way claimToken used up the token, and with it the
\* client's own reservation; it can log in for another one at once, and what it asked
\* of the old stream is refused unheard.
Launch(t, complete) ==
    /\ LaunchAdmits(t)
    /\ stream' = [token |-> t, state |-> "running", screen |-> screen, release |-> prepared,
                  ends |-> ~complete, takenBy |-> Nobody]
    /\ reservation' = IF reservation = t THEN Nobody ELSE reservation
    /\ takeover' = Nobody
    /\ drained' = [c \in Clients |-> "none"]
    /\ UNCHANGED <<mirrors, tokens, op, displayGeneration, prepared, restoreFailed, screen,
                   request, releases, timeouts, shutdown>>

\* The endpoint cannot be made: nothing is left but a display to release.
LaunchFails(t) ==
    /\ LaunchAdmits(t) /\ displayGeneration < MaxGeneration
    /\ stream' = NoStream
    /\ takeover' = KeptTakeover
    /\ releases' = releases \cup {[token |-> screen, gen |-> displayGeneration]}
    /\ UNCHANGED <<mirrors, tokens, reservation, op, displayGeneration, prepared, restoreFailed,
                   screen, request, drained, timeouts, shutdown>>

-----------------------------------------------------------------------------
(* The stream *)

\* takeOverWithToken on the stream's queue.
TakeOver(t) ==
    /\ drained[t] = "asked"
    /\ IF Valid(t) /\ LeaseHeld
         THEN /\ drained' = [drained EXCEPT ![t] = "draining"]
              /\ stream' = [stream EXCEPT !.ends = TRUE, !.takenBy = KeptTakeover]
         ELSE /\ drained' = [drained EXCEPT ![t] = "refused"] /\ UNCHANGED stream
    /\ UNCHANGED <<mirrors, tokens, reservation, takeover, op, displayGeneration, prepared,
                   restoreFailed, screen, request, releases, timeouts, shutdown>>

\* stopOnQueueForReason: for any reason of the stream's own, or because it must.
StreamStops ==
    /\ stream.state = "running"
    /\ stream' = [stream EXCEPT !.state = "stopping"]
    /\ UNCHANGED <<mirrors, tokens, reservation, takeover, op, displayGeneration, prepared,
                   restoreFailed, screen, request, drained, releases, timeouts, shutdown>>

\* Mutation: the end of a stream does not give its screen back.
StreamDrainedKeepsScreen ==
    /\ stream.state = "stopping"
    /\ stream' = [NoStream EXCEPT !.token = stream.token, !.state = "stopped",
                                  !.takenBy = stream.takenBy]
    /\ drained' = [t \in Clients |->
                     IF drained[t] # "draining" THEN drained[t]
                     ELSE IF request[t].pc = "wait" THEN "accepted" ELSE "none"]
    /\ releases' = releases
         \cup (IF shutdown = "draining"
               THEN {AtShutdown} ELSE {})
    /\ shutdown' = IF shutdown = "draining" THEN "releasing" ELSE shutdown
    /\ UNCHANGED <<mirrors, tokens, reservation, takeover, op, displayGeneration, prepared,
                   restoreFailed, screen, request, timeouts>>

\* finishStop: didStop, then the callbacks of those who wait.
StreamDrained ==
    /\ stream.state = "stopping"
    /\ stream' = [NoStream EXCEPT !.token = stream.token, !.state = "stopped",
                                  !.takenBy = stream.takenBy]
    /\ drained' = [t \in Clients |->
                     IF drained[t] # "draining" THEN drained[t]
                     ELSE IF request[t].pc = "wait" THEN "accepted" ELSE "none"]
    /\ releases' = releases
         \cup (IF stream.release
               THEN {[token |-> stream.screen, gen |-> displayGeneration]} ELSE {})
         \cup (IF shutdown = "draining"
               THEN {AtShutdown} ELSE {})
    /\ shutdown' = IF shutdown = "draining" THEN "releasing" ELSE shutdown
    /\ UNCHANGED <<mirrors, tokens, reservation, takeover, op, displayGeneration, prepared,
                   restoreFailed, screen, request, timeouts>>

-----------------------------------------------------------------------------
(* releaseDisplayGeneration *)

\* Mutation: a release does not ask which preparation it is for.
ReleaseStartsAnyGeneration(r) ==
    /\ op = Nobody
    /\ IF Live
         THEN /\ UNCHANGED op /\ releases' = releases \ {r}
              /\ shutdown' = IF r = AtShutdown THEN "done" ELSE shutdown
         ELSE op' = r /\ UNCHANGED <<releases, shutdown>>
    /\ UNCHANGED <<mirrors, tokens, reservation, takeover, displayGeneration, prepared,
                   restoreFailed, screen, stream, request, drained, timeouts>>

\* Whoever holds the display is waited for; a release for another generation or
\* under a stream does nothing.
ReleaseStarts(r) ==
    /\ op = Nobody
    /\ IF (r # AtShutdown /\ r.gen # displayGeneration) \/ Live
         THEN /\ UNCHANGED op /\ releases' = releases \ {r}
              /\ shutdown' = IF r = AtShutdown THEN "done" ELSE shutdown
         ELSE op' = r /\ UNCHANGED <<releases, shutdown>>
    /\ UNCHANGED <<mirrors, tokens, reservation, takeover, displayGeneration, prepared,
                   restoreFailed, screen, stream, request, drained, timeouts>>

ReleaseRuns(r, restored) ==
    /\ op = r
    /\ Restore(restored)
    /\ op' = Nobody /\ releases' = releases \ {r}
    /\ shutdown' = IF r = AtShutdown THEN "done" ELSE shutdown
    /\ UNCHANGED <<mirrors, tokens, reservation, takeover, stream, request, drained, timeouts>>

\* recoverTopologyAuthorized of an idle host: back to its own geometry, if there is a callback
\* for it (recoverDisplay then only wakes the display).
RecoverTopology(restored) ==
    /\ ~stopping /\ op = Nobody /\ ~Live /\ displayGeneration < MaxGeneration
    /\ Restore(restored)
    /\ UNCHANGED <<mirrors, tokens, reservation, takeover, op, stream, request, drained,
                   releases, timeouts, shutdown>>

-----------------------------------------------------------------------------
(* Time and shutdown *)

\* The token of a client in the middle of something expires, is revoked, or the desktop
\* changes owner; an idle client logs in again.
TokenEnds(t) ==
    /\ t \in tokens /\ t \in {op, takeover, reservation}
    /\ tokens' = tokens \ {t}
    /\ reservation' = IF reservation = t THEN Nobody ELSE reservation
    /\ stream' = Lapse(t)
    /\ UNCHANGED <<mirrors, takeover, op, displayGeneration, prepared, restoreFailed, screen,
                   request, drained, releases, timeouts, shutdown>>

\* Fifteen seconds without a launch; the wait of five ends before.
ReservationEnds ==
    /\ takeover # Nobody /\ request[takeover].pc # "wait"
    /\ stream' = Lapse(takeover) /\ takeover' = Nobody
    /\ reservation' = IF reservation = takeover THEN Nobody ELSE reservation
    /\ UNCHANGED <<mirrors, tokens, op, displayGeneration, prepared, restoreFailed, screen,
                   request, drained, releases, timeouts, shutdown>>

StopAsked ==
    /\ shutdown = "no" /\ shutdown' = "asked"
    /\ UNCHANGED <<mirrors, tokens, reservation, takeover, op, displayGeneration, prepared,
                   restoreFailed, screen, stream, request, drained, releases, timeouts>>

\* stopWithCompletion: the stream first, then the display, then the server.
StopRuns ==
    /\ shutdown = "asked"
    /\ IF Live
         THEN /\ shutdown' = "draining" /\ stream' = [stream EXCEPT !.ends = TRUE] /\ UNCHANGED releases
         ELSE /\ shutdown' = "releasing" /\ UNCHANGED stream
              /\ releases' = releases \cup {AtShutdown}
    /\ UNCHANGED <<mirrors, tokens, reservation, takeover, op, displayGeneration, prepared,
                   restoreFailed, screen, request, drained, timeouts>>

-----------------------------------------------------------------------------
RequestSteps(t) ==
    \/ PrepareDecide(t) \/ ReserveTakeover(t) \/ RecordTakeover(t) \/ DrainAnswers(t)
    \/ DrainTimesOut(t) \/ PrepareScreen(t)
    \/ \E restored \in BOOLEAN :
         \/ PrepareRestore(t, restored)
         \/ \E ok \in BOOLEAN : PrepareCheck(t, ok, restored)
ReleaseSteps ==
    \E r \in releases : ReleaseStarts(r) \/ \E restored \in BOOLEAN : ReleaseRuns(r, restored)
StreamQueue == (\E t \in Clients : TakeOver(t)) \/ (stream.ends /\ StreamStops) \/ StreamDrained

RuntimeNext ==
    \/ \E t \in Clients :
         \/ \E consent \in Clients \cup {Nobody} : PrepareReserve(t, consent)
         \/ RequestSteps(t) \/ LaunchFails(t) \/ TakeOver(t) \/ TokenEnds(t)
         \/ \E complete \in BOOLEAN : Launch(t, complete)
    \/ StreamStops \/ StreamDrained \/ ReleaseSteps \/ ReservationEnds \/ StopAsked \/ StopRuns
    \/ \E restored \in BOOLEAN : RecoverTopology(restored)

\* A request's thread runs, its waits are bounded, timers fire, queues are served,
\* and a stream that must stop does and drains (preview-session.h).
RuntimeFairness ==
    /\ WF_runtimeVars(\E t \in Clients : RequestSteps(t)) /\ WF_runtimeVars(StreamQueue)
    /\ SF_runtimeVars(ReleaseSteps) /\ WF_runtimeVars(StopRuns)
RuntimeSpec == RuntimeInit /\ [][RuntimeNext]_runtimeVars /\ RuntimeFairness

-----------------------------------------------------------------------------
(* Properties *)

\* The screen a stream was launched on does not change while it captures or drains,
\* and a prepared screen waiting for its client is not taken away by a late timer
\* or by the end of a stream that belong to another preparation.
DisplayKept ==
    [][screen' # screen =>
         /\ ~Live
         /\ op \in releases => op.token = screen \/ op = AtShutdown]_runtimeVars

\* Once a session was ended by a client's takeover, the next session is that
\* client's: a reconnect of the old one, a retry after the five second limit and
\* a slow drain do not change it, unless the reservation ran out or was refused or
\* the client's token ended.
TransferHonoured ==
    [][stream'.state = "running" /\ stream.state # "running" /\ stream.takenBy # Nobody =>
         stream'.token = stream.takenBy]_runtimeVars

\* Every display operation ends, so nobody is locked out of the display; a screen
\* that is prepared and not used is given back, or failed to be; and stopping the
\* host comes to its end with the screen given back.
RuntimeProgress ==
    /\ op # Nobody ~> op = Nobody
    /\ prepared ~> (~prepared \/ Live \/ restoreFailed)
    /\ stopping ~> (shutdown = "done" /\ (~prepared \/ restoreFailed))
====
