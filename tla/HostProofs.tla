------------------------------ MODULE HostProofs ------------------------------
(***************************************************************************)
(* Proofs about the processes of the macOS Host: the registry that makes   *)
(* one of them the graphical owner, and the runtime that owns the screen.  *)
(***************************************************************************)
EXTENDS AgentRegistry, HostRuntime, TLAPS

(***************************************************************************)
(* The registry.  OneGraphicalOwner looks at the moment authority is held; *)
(* what makes it inductive is what happens while it is not: the slot stays *)
(* with the link of the last owner, closed or retired, until that owner    *)
(* has exited, so that nobody who was granted the lease is alive when the  *)
(* slot is free.                                                           *)
(***************************************************************************)
LinkRecords ==
  [state : {"free", "open"}, proc : Processes \cup {NoLink}, phase : Phases \cup {"none"},
   retired : BOOLEAN, identity : {"no", "asked", "answered"}, late : BOOLEAN]

RegistryTyped ==
  /\ scope \in [Processes -> Phases \cup {"none"}]
  /\ links \in [Links -> LinkRecords]
  /\ current \in Links \cup {NoLink}
  /\ active \in BOOLEAN
  /\ job = NoJob \/ (job.link \in Links /\ job \in [link : Links, stage : {"running", "issued"}])

\* Whoever holds the slot is the only process alive that was ever granted the lease.
SlotGuards ==
  /\ current = NoLink => ~active /\ granted \cap alive = {}
  /\ current # NoLink => granted \cap alive \subseteq {Owner}

\* A link that asked for a certificate has no lease and cannot get one, for as long
\* as the certificate is being issued.
OneShot ==
  /\ \A l \in Links : HasLease(l) => links[l].identity = "no"
  /\ job # NoJob /\ Open(job.link) => links[job.link].identity # "no"

RegistryInv == RegistryTyped /\ SlotGuards /\ OneShot

\* close: of agent-registry.m keeps who the owner is.
LEMMA CloseKeeps ==
  ASSUME RegistryInv, NEW l \in Links
  PROVE  /\ Closed(l) \in [Links -> LinkRecords]
         /\ Closed(l)[l].state = "free" /\ Closed(l)[l].identity = "no"
         /\ \A k \in Links : k # l => Closed(l)[k] = links[k]
         /\ current # NoLink => Closed(l)[current].proc = Owner
<1>1. Owner \in Processes \cup {NoLink} \/ current = NoLink
  BY DEF RegistryInv, RegistryTyped, LinkRecords, Owner
<1>2. links[l].phase \in Phases \cup {"none"}
  BY DEF RegistryInv, RegistryTyped, LinkRecords
<1>3. FreeLink \in LinkRecords
  BY DEF FreeLink, LinkRecords
<1>4. CASE l = current
  <2>1. Owner \in Processes \cup {NoLink}
    BY <1>1, <1>4, AgentRegistryAssumption
  <2> DEFINE r == [FreeLink EXCEPT !.proc = Owner, !.phase = links[l].phase]
  <2>2. r \in LinkRecords /\ r.state = "free" /\ r.identity = "no" /\ r.proc = Owner
    BY <1>2, <2>1 DEF FreeLink, LinkRecords
  <2>3. Closed(l) = [links EXCEPT ![l] = r]
    BY <1>4 DEF Closed
  <2> HIDE DEF r
  <2> QED
    BY <1>4, <2>2, <2>3 DEF RegistryInv, RegistryTyped
<1>5. CASE l # current
  <2>1. Closed(l) = [links EXCEPT ![l] = FreeLink]
    BY <1>5 DEF Closed
  <2>2. FreeLink.state = "free" /\ FreeLink.identity = "no"
    BY DEF FreeLink
  <2> QED
    BY <1>3, <1>5, <2>1, <2>2 DEF RegistryInv, RegistryTyped, Owner
<1> QED
  BY <1>4, <1>5

\* Whatever closes one link and no more keeps the registry in order.
LEMMA CloseStep ==
  ASSUME RegistryInv, NEW l \in Links,
         links' = Closed(l), active' = (active /\ l # current), job' \in {job, NoJob},
         UNCHANGED <<scope, current, alive, granted>>
  PROVE  RegistryInv'
<1> USE DEF RegistryInv, RegistryTyped
<1>1. /\ links' \in [Links -> LinkRecords]
      /\ links'[l].state = "free" /\ links'[l].identity = "no"
      /\ \A k \in Links : k # l => links'[k] = links[k]
      /\ current # NoLink => links'[current].proc = Owner
  BY CloseKeeps
<1>2. RegistryTyped'
  BY <1>1
<1>3. SlotGuards'
  BY <1>1 DEF SlotGuards, Owner
<1>4. OneShot'
  BY <1>1 DEF OneShot, HasLease, Open
<1> QED
  BY <1>2, <1>3, <1>4

\* The registry starts without links, owner or jobs.
LEMMA RegistryStart == RegistryInit => RegistryInv
<1> SUFFICES ASSUME RegistryInit PROVE RegistryInv
  OBVIOUS
<1>1. FreeLink \in LinkRecords /\ FreeLink.phase = "none"
  BY DEF FreeLink, LinkRecords
<1>2. RegistryTyped
  BY <1>1 DEF RegistryInit, RegistryTyped, Phases
<1>3. SlotGuards
  BY DEF RegistryInit, SlotGuards
<1>4. OneShot
  BY <1>1 DEF RegistryInit, OneShot, HasLease
<1> QED
  BY <1>2, <1>3, <1>4 DEF RegistryInv

\* Every block of the registry's queue, every exit and every change of the world keeps
\* the invariant.
LEMMA RegistryStep == RegistryInv /\ [RegistryNext]_registryVars => RegistryInv'
<1> SUFFICES ASSUME RegistryInv, [RegistryNext]_registryVars PROVE RegistryInv'
  OBVIOUS
<1> USE DEF RegistryInv
<1>1. ASSUME NEW l \in Links, NEW p \in Processes, Accept(l, p) PROVE RegistryInv'
  <2> DEFINE r == [FreeLink EXCEPT !.state = "open", !.proc = p]
  <2>1. /\ r \in LinkRecords /\ r.phase = "none" /\ r.identity = "no"
    BY DEF FreeLink, LinkRecords
  <2>2. /\ links' = [links EXCEPT ![l] = r] /\ l # current /\ l # job.link
        /\ UNCHANGED <<scope, alive, active, current, job, granted>>
    BY <1>1 DEF Accept
  <2> HIDE DEF r
  <2>3. RegistryTyped'
    BY <2>1, <2>2 DEF RegistryTyped
  <2>4. SlotGuards'
    BY <2>2 DEF RegistryTyped, SlotGuards, Owner
  <2>5. OneShot'
    BY <2>1, <2>2 DEF RegistryTyped, OneShot, HasLease, Open
  <2> QED
    BY <2>3, <2>4, <2>5
<1>2. ASSUME NEW l \in Links, NEW watched \in BOOLEAN, Register(l, watched) PROVE RegistryInv'
  <2> DEFINE p == links[l].proc
  <2>1. /\ links' = [links EXCEPT ![l].phase = scope[p]] /\ current = NoLink /\ current' = l
        /\ granted' = granted \cup {p} /\ active' = watched /\ links[l].identity = "no"
        /\ p \in alive /\ scope[p] \in Phases /\ Open(l)
        /\ UNCHANGED <<scope, alive, job>>
    BY <1>2 DEF Register, InScope, Phases
  <2>2. /\ links' \in [Links -> LinkRecords] /\ links'[l].proc = p /\ links'[l].identity = "no"
        /\ \A k \in Links : k # l => links'[k] = links[k]
        /\ links'[l].state = links[l].state
    BY <2>1 DEF RegistryTyped, LinkRecords
  <2>3. RegistryTyped'
    BY <2>1, <2>2 DEF RegistryTyped
  <2>4. SlotGuards'
    BY <2>1, <2>2, AgentRegistryAssumption DEF SlotGuards, Owner
  <2>5. OneShot'
    BY <2>1, <2>2 DEF RegistryTyped, OneShot, HasLease, Open
  <2> QED
    BY <2>3, <2>4, <2>5
<1>3. ASSUME NEW l \in Links, Malformed(l) \/ WatchTick(l) \/ Disconnect(l) PROVE RegistryInv'
  <2>1. Close(l)
    BY <1>3 DEF Malformed, WatchTick, Disconnect
  <2> QED
    BY <2>1, CloseStep DEF Close
<1>4. ASSUME NEW l \in Links, Retire(l) PROVE RegistryInv'
  <2>1. /\ links' = [links EXCEPT ![l].retired = TRUE] /\ active' = FALSE
        /\ UNCHANGED <<scope, alive, current, job, granted>>
    BY <1>4 DEF Retire
  <2>2. /\ links' \in [Links -> LinkRecords]
        /\ \A k \in Links : /\ links'[k].proc = links[k].proc /\ links'[k].phase = links[k].phase
                            /\ links'[k].identity = links[k].identity
                            /\ links'[k].state = links[k].state
    <3> DEFINE r == [links[l] EXCEPT !.retired = TRUE]
    <3>1. links[l] \in LinkRecords
      BY DEF RegistryTyped
    <3>2. r \in LinkRecords
      BY <3>1 DEF LinkRecords
    <3>3. /\ r.proc = links[l].proc /\ r.phase = links[l].phase /\ r.identity = links[l].identity
          /\ r.state = links[l].state
      BY <3>1 DEF LinkRecords
    <3>4. links' = [links EXCEPT ![l] = r]
      BY <2>1
    <3> HIDE DEF r
    <3> QED
      BY <3>2, <3>3, <3>4 DEF RegistryTyped
  <2>3. RegistryTyped'
    BY <2>1, <2>2 DEF RegistryTyped
  <2>4. SlotGuards'
    BY <2>1, <2>2 DEF RegistryTyped, SlotGuards, Owner
  <2>5. OneShot'
    BY <2>1, <2>2 DEF RegistryTyped, OneShot, HasLease, Open
  <2> QED
    BY <2>3, <2>4, <2>5
<1>5. ASSUME NEW l \in Links, RequestIdentity(l) PROVE RegistryInv'
  <2>1. /\ links' = [links EXCEPT ![l].identity = "asked"] /\ ~HasLease(l)
        /\ job' = [link |-> l, stage |-> "running"]
        /\ UNCHANGED <<scope, alive, active, current, granted>>
    BY <1>5 DEF RequestIdentity
  <2>2. /\ links' \in [Links -> LinkRecords] /\ links'[l].identity = "asked"
        /\ \A k \in Links : /\ links'[k].proc = links[k].proc /\ links'[k].phase = links[k].phase
                            /\ k # l => links'[k].identity = links[k].identity
    BY <2>1 DEF RegistryTyped, LinkRecords
  <2>3. RegistryTyped'
    BY <2>1, <2>2 DEF RegistryTyped
  <2>4. SlotGuards'
    BY <2>1, <2>2 DEF RegistryTyped, SlotGuards, Owner
  <2>5. OneShot'
    BY <2>1, <2>2 DEF RegistryTyped, OneShot, HasLease, Open
  <2> QED
    BY <2>3, <2>4, <2>5
<1>6. ASSUME NEW l \in Links, Expire(l) PROVE RegistryInv'
  <2>1. /\ links' = [links EXCEPT ![l].late = TRUE]
        /\ UNCHANGED <<scope, alive, active, current, job, granted>>
    BY <1>6 DEF Expire
  <2>2. /\ links' \in [Links -> LinkRecords]
        /\ \A k \in Links : /\ links'[k].proc = links[k].proc /\ links'[k].phase = links[k].phase
                            /\ links'[k].identity = links[k].identity
                            /\ links'[k].state = links[k].state
    <3> DEFINE r == [links[l] EXCEPT !.late = TRUE]
    <3>1. links[l] \in LinkRecords
      BY DEF RegistryTyped
    <3>2. r \in LinkRecords
      BY <3>1 DEF LinkRecords
    <3>3. /\ r.proc = links[l].proc /\ r.phase = links[l].phase /\ r.identity = links[l].identity
          /\ r.state = links[l].state
      BY <3>1 DEF LinkRecords
    <3>4. links' = [links EXCEPT ![l] = r]
      BY <2>1
    <3> HIDE DEF r
    <3> QED
      BY <3>2, <3>3, <3>4 DEF RegistryTyped
  <2> QED
    BY <2>1, <2>2 DEF RegistryTyped, SlotGuards, Owner, OneShot, HasLease, Open
<1>7. ASSUME NEW p \in Processes, ProcessExits(p) PROVE RegistryInv'
  BY <1>7 DEF ProcessExits, RegistryTyped, SlotGuards, Owner, OneShot, HasLease, Open
<1>8. ASSUME NEW p \in Processes, NEW phase \in Phases \cup {"none"}, ScopeChanges(p, phase)
      PROVE  RegistryInv'
  <2>1. /\ scope' \in [Processes -> Phases \cup {"none"}]
        /\ UNCHANGED <<alive, links, active, current, job, granted>>
    BY <1>8 DEF ScopeChanges, RegistryTyped
  <2> QED
    BY <2>1 DEF RegistryTyped, SlotGuards, Owner, OneShot, HasLease, Open
<1>9. CASE Issue
  <2>1. /\ job.stage = "running" /\ job' = [job EXCEPT !.stage = "issued"]
        /\ UNCHANGED <<scope, alive, links, active, current, granted>>
    BY <1>9 DEF Issue
  <2>2. job # NoJob
    BY <2>1 DEF NoJob
  <2>3. job' \in [link : Links, stage : {"running", "issued"}] /\ job'.link = job.link
    BY <2>1, <2>2 DEF RegistryTyped
  <2> QED
    BY <2>1, <2>2, <2>3 DEF RegistryTyped, SlotGuards, Owner, OneShot, HasLease, Open
<1>10. ASSUME NEW wellFormed \in BOOLEAN, IdentityReply(wellFormed) PROVE RegistryInv'
  <2> DEFINE l == job.link
  <2>1. /\ job.stage = "issued" /\ job' = NoJob
        /\ UNCHANGED <<scope, alive, current, granted>>
    BY <1>10 DEF IdentityReply
  <2>2. job # NoJob /\ l \in Links
    <3>1. NoJob.stage = "none"
      BY DEF NoJob
    <3> QED
      BY <2>1, <3>1 DEF RegistryTyped
  <2>3. CASE UNCHANGED <<links, active>>
    BY <2>1, <2>3 DEF RegistryTyped, SlotGuards, Owner, OneShot, HasLease, Open
  <2>4. CASE links' = Closed(l) /\ active' = (active /\ l # current)
    BY <2>1, <2>2, <2>4, CloseStep
  <2>5. CASE links' = [links EXCEPT ![l].identity = "answered"] /\ UNCHANGED active /\ Open(l)
    <3>1. ~HasLease(l)
      BY <2>2, <2>5 DEF OneShot
    <3>2. /\ links' \in [Links -> LinkRecords]
          /\ \A k \in Links : /\ links'[k].proc = links[k].proc /\ links'[k].phase = links[k].phase
                              /\ k # l => links'[k].identity = links[k].identity
      BY <2>2, <2>5 DEF RegistryTyped, LinkRecords
    <3>3. RegistryTyped'
      BY <2>1, <2>5, <3>2 DEF RegistryTyped
    <3>4. SlotGuards'
      BY <2>1, <2>5, <3>2 DEF RegistryTyped, SlotGuards, Owner
    <3>5. OneShot'
      BY <2>1, <3>1, <3>2 DEF OneShot, HasLease, Open
    <3> QED
      BY <3>3, <3>4, <3>5
  <2> QED
    BY <1>10, <2>3, <2>4, <2>5 DEF IdentityReply
<1>11. CASE RefreshLease
  BY <1>11 DEF RefreshLease, RegistryTyped, SlotGuards, Owner, OneShot, HasLease, Open
<1>12. CASE ExitSeen
  <2>1. /\ links' = [links EXCEPT ![current] = FreeLink] /\ current \in Links
        /\ current' = NoLink /\ active' = FALSE /\ Owner \notin alive
        /\ UNCHANGED <<scope, alive, job, granted>>
    BY <1>12 DEF ExitSeen, RegistryTyped
  <2>2. FreeLink \in LinkRecords /\ FreeLink.phase = "none" /\ FreeLink.state = "free"
    BY DEF FreeLink, LinkRecords
  <2>3. RegistryTyped'
    BY <2>1, <2>2 DEF RegistryTyped
  <2>4. SlotGuards'
    BY <2>1, AgentRegistryAssumption DEF SlotGuards
  <2>5. OneShot'
    BY <2>1, <2>2 DEF RegistryTyped, OneShot, HasLease, Open
  <2> QED
    BY <2>3, <2>4, <2>5
<1>13. CASE RegistryStop
  <2>1. /\ links' = [l \in Links |-> Closed(l)[l]] /\ active' = FALSE
        /\ UNCHANGED <<scope, alive, current, job, granted>>
    BY <1>13 DEF RegistryStop
  <2>2. ASSUME NEW l \in Links
        PROVE  /\ Closed(l)[l] \in LinkRecords /\ Closed(l)[l].state = "free"
               /\ Closed(l)[l].identity = "no"
               /\ l = current => Closed(l)[l].proc = Owner
    BY CloseKeeps, AgentRegistryAssumption
  <2>3. RegistryTyped'
    BY <2>1, <2>2 DEF RegistryTyped
  <2>4. SlotGuards'
    BY <2>1, <2>2 DEF RegistryTyped, SlotGuards, Owner
  <2>5. OneShot'
    BY <2>1, <2>2 DEF RegistryTyped, OneShot, HasLease, Open
  <2> QED
    BY <2>3, <2>4, <2>5
<1>14. CASE UNCHANGED registryVars
  BY <1>14 DEF registryVars, RegistryTyped, SlotGuards, Owner, OneShot, HasLease, Open
<1> QED
  BY <1>1, <1>2, <1>3, <1>4, <1>5, <1>6, <1>7, <1>8, <1>9, <1>10, <1>11, <1>12, <1>13, <1>14
     DEF RegistryNext

\* At most one process owns display, capture and input: while one does, every process
\* that ever did has exited, whatever links were lost, refused, retired or left over.
THEOREM GraphicalOwner == RegistrySpec => []OneGraphicalOwner
<1>1. RegistryInv => OneGraphicalOwner
  BY DEF RegistryInv, SlotGuards, OneShot, OneGraphicalOwner
<1> QED
  BY <1>1, RegistryStart, RegistryStep, PTL DEF RegistrySpec

(***************************************************************************)
(* The runtime.  The screen and the next session are both protected by the *)
(* one display operation: whoever holds it keeps streams from starting, so *)
(* what it saw when it took its decision still holds when it acts.         *)
(***************************************************************************)
Screens == Clients \cup {Nobody}

Streams ==
  [token : Screens, state : {"none", "running", "stopping", "stopped"}, screen : Screens,
   release : BOOLEAN, ends : BOOLEAN, takenBy : Screens]

Requests ==
  [pc : {"idle", "decide", "reserve", "record", "wait", "restore", "prepare", "check"},
   consent : Screens]

RuntimeTyped ==
  /\ tokens \subseteq Clients /\ takeover \in Screens /\ screen \in Screens
  /\ displayGeneration \in Nat
  /\ releases \subseteq ReleaseCalls
  /\ stream \in Streams
  /\ request \in [Clients -> Requests]

\* _displayOperation names the one request or release in progress.
OneOperation ==
  /\ op \in Screens \cup releases
  /\ \A t \in Clients : request[t].pc # "idle" => op = t

\* No stream starts under a request that is about to change the screen or under a
\* release, and a stream keeps the screen it was launched on.
ScreenHeld ==
  /\ Live => stream.screen = screen
  /\ \A t \in Clients :
       /\ request[t].pc \in {"prepare", "check"} => ~Live
       /\ request[t].pc = "check" => screen = t
  /\ op \in releases => ~Live /\ (op = AtShutdown \/ op.gen = displayGeneration)

\* A release of the present generation is meant for the screen there is now, and there
\* is none between the restoration and the preparation of a screen.
ReleasesCurrent ==
  /\ \A r \in releases :
       r.gen <= displayGeneration /\ (r.gen = displayGeneration => r.token = screen)
  /\ \A t \in Clients :
       request[t].pc = "prepare" => \A r \in releases : r.gen # displayGeneration

\* Who ended the stream by a takeover still has the runtime's reservation, and nobody
\* else is about to record another one.
TransferBound ==
  /\ stream.takenBy # Nobody => takeover = stream.takenBy /\ takeover \in tokens
  /\ \A t \in Clients :
       /\ request[t].pc \in {"reserve", "record"} => takeover = Nobody
       /\ request[t].pc = "wait" => takeover = t

\* The flags of the configuration and of the screen.
Flagged == mirrors \in BOOLEAN /\ prepared \in BOOLEAN

\* The invariant.
RuntimeInv == RuntimeTyped /\ OneOperation /\ ScreenHeld /\ ReleasesCurrent /\ TransferBound

\* A client is not a call of releaseDisplayGeneration.
LEMMA NotARelease == ASSUME RuntimeTyped, NEW x \in Screens PROVE x \notin releases
BY HostRuntimeAssumption DEF RuntimeTyped, Screens

\* A request in progress holds the display operation, and so is alone.
LEMMA Alone ==
  ASSUME RuntimeInv, NEW t \in Clients, request[t].pc # "idle"
  PROVE  op = t /\ t # Nobody /\ t \notin releases /\ \A k \in Clients : k # t => request[k].pc = "idle"
BY NotARelease, HostRuntimeAssumption DEF RuntimeInv, OneOperation, Screens

\* Without a display operation there is no request either.
LEMMA NoneInProgress ==
  ASSUME RuntimeInv, op = Nobody
  PROVE  /\ \A k \in Clients : request[k].pc = "idle"
         /\ op \notin releases
BY NotARelease, HostRuntimeAssumption DEF RuntimeInv, OneOperation, Screens

\* A request that holds the display operation goes on to another step.
LEMMA RequestMoves ==
  ASSUME RuntimeInv, NEW t \in Clients, request[t].pc # "idle",
         NEW next \in {"decide", "reserve", "record", "wait", "restore", "prepare", "check"},
         request' = [request EXCEPT ![t].pc = next]
                    \/ request' = [request EXCEPT ![t] = [pc |-> next, consent |-> Nobody]],
         op' = op
  PROVE  /\ request' \in [Clients -> Requests]
         /\ request'[t].pc = next
         /\ \A k \in Clients : k # t => request'[k].pc = "idle"
         /\ op' = t
         /\ \A k \in Clients : request'[k].pc # "idle" => op' = k
<1>1. op = t /\ \A k \in Clients : k # t => request[k].pc = "idle"
  BY Alone
<1>2. request[t] \in Requests /\ request \in [Clients -> Requests]
  BY DEF RuntimeInv, RuntimeTyped
<1>3. PICK q \in Requests : q.pc = next /\ request' = [request EXCEPT ![t] = q]
  <2>1. CASE request' = [request EXCEPT ![t].pc = next]
    <3>1. [request[t] EXCEPT !.pc = next] \in Requests /\ [request[t] EXCEPT !.pc = next].pc = next
      BY <1>2 DEF Requests
    <3> QED
      BY <2>1, <3>1
  <2>2. CASE request' = [request EXCEPT ![t] = [pc |-> next, consent |-> Nobody]]
    <3>1. [pc |-> next, consent |-> Nobody] \in Requests
      BY DEF Requests, Screens
    <3> QED
      BY <2>2, <3>1
  <2> QED
    BY <2>1, <2>2
<1> QED
  BY <1>1, <1>2, <1>3

\* finishDisplayOperation leaves no request in progress.
LEMMA Answered ==
  ASSUME RuntimeInv, NEW t \in Clients, request[t].pc # "idle", Answer(t)
  PROVE  /\ request' \in [Clients -> Requests]
         /\ \A k \in Clients : request'[k].pc = "idle"
         /\ op' = Nobody
<1>1. \A k \in Clients : k # t => request[k].pc = "idle"
  BY Alone
<1>2. [pc |-> "idle", consent |-> Nobody] \in Requests
  BY DEF Requests, Screens
<1> QED
  BY <1>1, <1>2 DEF Answer, RuntimeInv, RuntimeTyped

\* What the steps that change one or two fields of the stream do to it.
LEMMA StreamFields ==
  ASSUME stream \in Streams, NEW x \in Screens
  PROVE  /\ LET s == [stream EXCEPT !.takenBy = x]
            IN  s \in Streams /\ s.state = stream.state /\ s.screen = stream.screen /\ s.takenBy = x
         /\ LET s == [stream EXCEPT !.ends = TRUE]
            IN  s \in Streams /\ s.state = stream.state /\ s.screen = stream.screen
                /\ s.takenBy = stream.takenBy
         /\ LET s == [stream EXCEPT !.ends = TRUE, !.takenBy = x]
            IN  s \in Streams /\ s.state = stream.state /\ s.screen = stream.screen /\ s.takenBy = x
         /\ LET s == [stream EXCEPT !.state = "stopping"]
            IN  s \in Streams /\ s.state = "stopping" /\ s.screen = stream.screen
                /\ s.takenBy = stream.takenBy
         /\ LET s == [NoStream EXCEPT !.token = stream.token, !.state = "stopped",
                                      !.takenBy = stream.takenBy]
            IN  s \in Streams /\ s.state = "stopped" /\ s.takenBy = stream.takenBy
<1>1. [stream EXCEPT !.takenBy = x] \in Streams
  BY DEF Streams
<1>2. [stream EXCEPT !.ends = TRUE] \in Streams
  BY DEF Streams
<1>3. [stream EXCEPT !.ends = TRUE, !.takenBy = x] \in Streams
  BY DEF Streams
<1>4. [stream EXCEPT !.state = "stopping"] \in Streams
  BY DEF Streams
<1>5. stream.token \in Screens /\ stream.takenBy \in Screens
  BY DEF Streams
<1>6. [NoStream EXCEPT !.token = stream.token, !.state = "stopped", !.takenBy = stream.takenBy]
        \in Streams
  BY <1>5 DEF Streams, NoStream, Screens
<1>7. LET s == [NoStream EXCEPT !.token = stream.token, !.state = "stopped",
                                !.takenBy = stream.takenBy]
      IN  s.state = "stopped" /\ s.takenBy = stream.takenBy
  BY DEF NoStream
<1> QED
  BY <1>1, <1>2, <1>3, <1>4, <1>6, <1>7 DEF Streams

\* restoreReservedDisplay starts a new generation and leaves the screen or restores it.
LEMMA Restores ==
  ASSUME RuntimeInv, NEW restored \in BOOLEAN, Restore(restored)
  PROVE  /\ displayGeneration' = displayGeneration + 1 /\ displayGeneration' \in Nat
         /\ screen' \in {screen, Nobody}
         /\ \A r \in releases : r.gen < displayGeneration'
<1>1. displayGeneration' = displayGeneration + 1 /\ displayGeneration \in Nat
  BY DEF Restore, RuntimeInv, RuntimeTyped
<1>2. screen' \in {screen, Nobody}
  BY DEF Restore
<1>3. ASSUME NEW r \in releases PROVE r.gen < displayGeneration'
  <2>1. r.gen \in Int /\ r.gen <= displayGeneration
    BY DEF RuntimeInv, RuntimeTyped, ReleaseCalls, ReleasesCurrent
  <2> QED
    BY <1>1, <2>1
<1> QED
  BY <1>1, <1>2, <1>3

\* The runtime starts with its own screen, without a stream and without requests.
LEMMA RuntimeStart == RuntimeInit => RuntimeInv
<1> SUFFICES ASSUME RuntimeInit PROVE RuntimeInv
  OBVIOUS
<1>1. NoStream \in Streams /\ NoStream.state = "none" /\ NoStream.takenBy = Nobody
  BY DEF NoStream, Streams, Screens
<1>2. [pc |-> "idle", consent |-> Nobody] \in Requests
  BY DEF Requests, Screens
<1>3. RuntimeTyped
  BY <1>1, <1>2 DEF RuntimeInit, RuntimeTyped, Screens
<1>4. OneOperation
  BY DEF RuntimeInit, OneOperation, Screens
<1>5. ScreenHeld
  BY <1>1 DEF RuntimeInit, ScreenHeld, Live
<1>6. ReleasesCurrent /\ TransferBound
  BY <1>1 DEF RuntimeInit, ReleasesCurrent, TransferBound
<1> QED
  BY <1>3, <1>4, <1>5, <1>6 DEF RuntimeInv

\* The steps of a display request.
LEMMA RequestStep ==
  ASSUME RuntimeInv, NEW t \in Clients, RequestSteps(t)
  PROVE  RuntimeInv'
<1> USE DEF RuntimeInv
<1>1. CASE PrepareDecide(t)
  <2>1. /\ request[t].pc = "decide" /\ takeover' \in {takeover, KeptTakeover}
        /\ UNCHANGED <<tokens, displayGeneration, screen, stream, releases>>
    BY <1>1 DEF PrepareDecide
  <2>2. takeover' \in Screens /\ (takeover \in tokens => takeover' = takeover)
    BY <2>1 DEF KeptTakeover, RuntimeTyped, Screens
  <2>3. stream.takenBy # Nobody => takeover' = stream.takenBy /\ takeover' \in tokens
    BY <2>2 DEF TransferBound
  <2>4. CASE Answer(t)
    BY <2>1, <2>2, <2>3, <2>4, Answered, HostRuntimeAssumption, NotARelease
       DEF RuntimeTyped, OneOperation, ScreenHeld, ReleasesCurrent, TransferBound, Screens, Live
  <2>5. CASE ~Answer(t)
    <3>1. PICK next \in {"reserve", "restore"} :
            /\ request' = [request EXCEPT ![t] = [pc |-> next, consent |-> Nobody]] /\ op' = op
            /\ next = "reserve" => takeover' = Nobody
      <4>1. op' = op /\ takeover' = KeptTakeover
            /\ request' = [request EXCEPT
                 ![t] = [pc |-> IF Live /\ KeptTakeover = Nobody THEN "reserve" ELSE "restore",
                         consent |-> Nobody]]
        BY <1>1, <2>5 DEF PrepareDecide
      <4> QED
        BY <4>1
    <3>2. /\ request' \in [Clients -> Requests] /\ request'[t].pc = next /\ op' = t
          /\ \A k \in Clients : k # t => request'[k].pc = "idle"
          /\ \A k \in Clients : request'[k].pc # "idle" => op' = k
      BY <2>1, <3>1, RequestMoves
    <3>3. t \notin releases
      BY <2>1, Alone
    <3>4. RuntimeTyped'
      BY <2>1, <2>2, <3>2 DEF RuntimeTyped
    <3>5. OneOperation'
      BY <3>2 DEF OneOperation, Screens
    <3>6. ScreenHeld'
      BY <2>1, <3>2, <3>3 DEF ScreenHeld, Live
    <3>7. ReleasesCurrent'
      BY <2>1, <3>2 DEF ReleasesCurrent
    <3>8. TransferBound'
      BY <2>1, <2>3, <3>1, <3>2 DEF TransferBound
    <3> QED
      BY <3>4, <3>5, <3>6, <3>7, <3>8
  <2> QED
    BY <2>4, <2>5
<1>2. CASE ReserveTakeover(t)
  <2>1. /\ request[t].pc = "reserve"
        /\ UNCHANGED <<tokens, takeover, displayGeneration, screen, stream, releases>>
    BY <1>2 DEF ReserveTakeover
  <2>2. CASE Answer(t)
    BY <2>1, <2>2, Answered, HostRuntimeAssumption, NotARelease
       DEF RuntimeTyped, OneOperation, ScreenHeld, ReleasesCurrent, TransferBound, Screens, Live
  <2>3. CASE request' = [request EXCEPT ![t].pc = "record"] /\ op' = op
    <3>2. /\ request' \in [Clients -> Requests] /\ request'[t].pc = "record" /\ op' = t
          /\ \A k \in Clients : k # t => request'[k].pc = "idle"
          /\ \A k \in Clients : request'[k].pc # "idle" => op' = k
      BY <2>1, <2>3, RequestMoves
    <3>3. t \notin releases
      BY <2>1, Alone
    <3> QED
      BY <2>1, <3>2, <3>3
         DEF RuntimeTyped, OneOperation, ScreenHeld, ReleasesCurrent, TransferBound, Screens, Live
  <2> QED
    BY <1>2, <2>2, <2>3 DEF ReserveTakeover
<1>3. CASE RecordTakeover(t)
  <2>1. /\ request[t].pc = "record" /\ takeover' = t /\ request' = [request EXCEPT ![t].pc = "wait"]
        /\ UNCHANGED <<tokens, op, displayGeneration, screen, stream, releases>>
    BY <1>3 DEF RecordTakeover
  <2>2. /\ request' \in [Clients -> Requests] /\ request'[t].pc = "wait" /\ op' = t
        /\ \A k \in Clients : k # t => request'[k].pc = "idle"
        /\ \A k \in Clients : request'[k].pc # "idle" => op' = k
    BY <2>1, RequestMoves
  <2>3. t \notin releases
    BY <2>1, Alone
  <2>4. stream.takenBy = Nobody
    BY <2>1 DEF TransferBound
  <2> QED
    BY <2>1, <2>2, <2>3, <2>4
       DEF RuntimeTyped, OneOperation, ScreenHeld, ReleasesCurrent, TransferBound, Screens, Live
<1>4. CASE DrainAnswers(t)
  <2>1. /\ request[t].pc = "wait" /\ takeover = t
        /\ UNCHANGED <<tokens, displayGeneration, screen, releases>>
    BY <1>4 DEF DrainAnswers, TransferBound
  <2>2. CASE request' = [request EXCEPT ![t].pc = "restore"] /\ UNCHANGED <<op, takeover, stream>>
    <3>2. /\ request' \in [Clients -> Requests] /\ request'[t].pc = "restore" /\ op' = t
          /\ \A k \in Clients : k # t => request'[k].pc = "idle"
          /\ \A k \in Clients : request'[k].pc # "idle" => op' = k
      BY <2>1, <2>2, RequestMoves
    <3>3. t \notin releases
      BY <2>1, Alone
    <3> QED
      BY <2>1, <2>2, <3>2, <3>3
         DEF RuntimeTyped, OneOperation, ScreenHeld, ReleasesCurrent, TransferBound, Screens, Live
  <2>3. CASE Answer(t) /\ takeover' = Nobody /\ stream' = Lapse(t)
    <3>1. stream.takenBy \in {Nobody, t}
      BY <2>1 DEF TransferBound
    <3>2. stream' = [stream EXCEPT !.takenBy = Nobody]
      BY <2>3, <3>1 DEF Lapse
    <3>3. /\ stream' \in Streams /\ stream'.state = stream.state /\ stream'.screen = stream.screen
          /\ stream'.takenBy = Nobody
      BY <3>2, StreamFields DEF RuntimeTyped, Screens
    <3> QED
      BY <2>1, <2>3, <3>3, Answered, HostRuntimeAssumption, NotARelease
         DEF RuntimeTyped, OneOperation, ScreenHeld, ReleasesCurrent, TransferBound, Screens, Live
  <2> QED
    BY <1>4, <2>2, <2>3 DEF DrainAnswers
<1>5. CASE DrainTimesOut(t)
  <2>1. /\ request[t].pc = "wait" /\ Answer(t)
        /\ UNCHANGED <<tokens, takeover, displayGeneration, screen, stream, releases>>
    BY <1>5 DEF DrainTimesOut
  <2> QED
    BY <2>1, Answered, HostRuntimeAssumption, NotARelease
       DEF RuntimeTyped, OneOperation, ScreenHeld, ReleasesCurrent, TransferBound, Screens, Live
<1>6. CASE PrepareScreen(t)
  <2>1. /\ request[t].pc = "prepare" /\ screen' = t /\ request' = [request EXCEPT ![t].pc = "check"]
        /\ UNCHANGED <<tokens, takeover, op, displayGeneration, stream, releases>>
    BY <1>6 DEF PrepareScreen
  <2>2. /\ request' \in [Clients -> Requests] /\ request'[t].pc = "check" /\ op' = t
        /\ \A k \in Clients : k # t => request'[k].pc = "idle"
        /\ \A k \in Clients : request'[k].pc # "idle" => op' = k
    BY <2>1, RequestMoves
  <2>3. t \notin releases
    BY <2>1, Alone
  <2>4. ~Live /\ \A r \in releases : r.gen # displayGeneration
    BY <2>1 DEF ScreenHeld, ReleasesCurrent
  <2> QED
    BY <2>1, <2>2, <2>3, <2>4
       DEF RuntimeTyped, OneOperation, ScreenHeld, ReleasesCurrent, TransferBound, Screens, Live
<1>7. ASSUME NEW restored \in BOOLEAN, PrepareRestore(t, restored) PROVE RuntimeInv'
  <2>1. request[t].pc = "restore" /\ UNCHANGED <<tokens, takeover, stream, releases>>
    BY <1>7 DEF PrepareRestore
  <2>2. CASE Answer(t) /\ UNCHANGED <<displayGeneration, screen>>
    BY <2>1, <2>2, Answered, HostRuntimeAssumption, NotARelease
       DEF RuntimeTyped, OneOperation, ScreenHeld, ReleasesCurrent, TransferBound, Screens, Live
  <2>3. CASE ~Live /\ Restore(restored)
    <3>1. /\ displayGeneration' = displayGeneration + 1 /\ displayGeneration' \in Nat
          /\ screen' \in {screen, Nobody}
          /\ \A r \in releases : r.gen < displayGeneration'
      BY <2>3, Restores
    <3>2. \A r \in releases : r.gen \in Int
      BY DEF RuntimeTyped, ReleaseCalls
    <3>3. CASE Answer(t)
      BY <2>1, <2>3, <3>1, <3>2, <3>3, Answered, HostRuntimeAssumption, NotARelease
         DEF RuntimeTyped, OneOperation, ScreenHeld, ReleasesCurrent, TransferBound, Screens, Live
    <3>4. CASE request' = [request EXCEPT ![t].pc = "prepare"] /\ op' = op
      <4>1. /\ request' \in [Clients -> Requests] /\ request'[t].pc = "prepare" /\ op' = t
            /\ \A k \in Clients : k # t => request'[k].pc = "idle"
            /\ \A k \in Clients : request'[k].pc # "idle" => op' = k
        BY <2>1, <3>4, RequestMoves
      <4>2. t \notin releases
        BY <2>1, Alone
      <4> QED
        BY <2>1, <2>3, <3>1, <3>2, <4>1, <4>2
           DEF RuntimeTyped, OneOperation, ScreenHeld, ReleasesCurrent, TransferBound, Screens, Live
    <3> QED
      BY <1>7, <2>3, <3>3, <3>4, Answered, <2>1 DEF PrepareRestore
  <2> QED
    BY <1>7, <2>2, <2>3 DEF PrepareRestore
<1>8. ASSUME NEW ok \in BOOLEAN, NEW restored \in BOOLEAN, PrepareCheck(t, ok, restored)
      PROVE  RuntimeInv'
  <2>1. /\ request[t].pc = "check" /\ Answer(t) /\ ~Live /\ screen = t
        /\ UNCHANGED <<tokens, takeover, stream>>
    BY <1>8 DEF PrepareCheck, ScreenHeld
  <2>2. CASE /\ releases' = releases \cup {[token |-> t, gen |-> displayGeneration]}
             /\ UNCHANGED <<displayGeneration, screen>>
    <3>1. releases' \subseteq ReleaseCalls
      BY <2>2 DEF RuntimeTyped, ReleaseCalls, Screens
    <3>2. Nobody \notin releases'
      BY <3>1, HostRuntimeAssumption
    <3>3. RuntimeTyped' /\ OneOperation'
      BY <2>1, <2>2, <3>1, Answered DEF RuntimeTyped, OneOperation, Screens
    <3>4. ScreenHeld' /\ TransferBound'
      BY <2>1, <2>2, <3>2, Answered DEF ScreenHeld, Live, TransferBound
    <3>5. ReleasesCurrent'
      BY <2>1, <2>2, Answered DEF RuntimeTyped, ReleasesCurrent
    <3> QED
      BY <3>3, <3>4, <3>5
  <2>3. CASE Restore(restored) /\ UNCHANGED releases
    <3>1. /\ displayGeneration' = displayGeneration + 1 /\ displayGeneration' \in Nat
          /\ screen' \in {screen, Nobody}
          /\ \A r \in releases : r.gen < displayGeneration'
      BY <2>3, Restores
    <3>2. \A r \in releases : r.gen \in Int
      BY DEF RuntimeTyped, ReleaseCalls
    <3> QED
      BY <2>1, <2>3, <3>1, <3>2, Answered, HostRuntimeAssumption, NotARelease
         DEF RuntimeTyped, OneOperation, ScreenHeld, ReleasesCurrent, TransferBound, Screens, Live
  <2>4. CASE UNCHANGED <<displayGeneration, screen, releases>>
    BY <2>1, <2>4, Answered, HostRuntimeAssumption, NotARelease
       DEF RuntimeTyped, OneOperation, ScreenHeld, ReleasesCurrent, TransferBound, Screens, Live
  <2> QED
    BY <1>8, <2>2, <2>3, <2>4 DEF PrepareCheck
<1> QED
  BY <1>1, <1>2, <1>3, <1>4, <1>5, <1>6, <1>7, <1>8 DEF RequestSteps

\* launch: a stream starts only where nobody holds the display operation and, after a
\* takeover, only for the client it was for.
LEMMA LaunchStep ==
  ASSUME RuntimeInv, Flagged, NEW t \in Clients,
         LaunchFails(t) \/ \E complete \in BOOLEAN : Launch(t, complete)
  PROVE  RuntimeInv' /\ UNCHANGED screen /\ (stream.takenBy # Nobody => t = stream.takenBy)
<1> USE DEF RuntimeInv
<1>1. /\ op = Nobody /\ ~ReservedForAnother(t)
      /\ UNCHANGED <<tokens, op, displayGeneration, screen, request>>
  BY DEF LaunchFails, Launch, LaunchAdmits
<1>2. (\A k \in Clients : request[k].pc = "idle") /\ op \notin releases
  BY <1>1, NoneInProgress
<1>3. stream.takenBy # Nobody => t = stream.takenBy
  BY <1>1 DEF ReservedForAnother, KeptTakeover, TransferBound
<1>4. CASE LaunchFails(t)
  <2>1. /\ stream' = NoStream /\ takeover' = KeptTakeover
        /\ releases' = releases \cup {[token |-> screen, gen |-> displayGeneration]}
    BY <1>4 DEF LaunchFails
  <2>2. NoStream \in Streams /\ NoStream.state = "none" /\ NoStream.takenBy = Nobody
    BY DEF NoStream, Streams, Screens
  <2>3. releases' \subseteq ReleaseCalls
    BY <2>1 DEF RuntimeTyped, ReleaseCalls, Screens
  <2>4. RuntimeTyped'
    BY <1>1, <2>1, <2>2, <2>3 DEF RuntimeTyped, KeptTakeover, Screens
  <2>5. OneOperation'
    BY <1>1, <1>2 DEF OneOperation, Screens
  <2>6. ScreenHeld'
    BY <1>1, <1>2, <2>1, <2>2, <2>3, HostRuntimeAssumption DEF ScreenHeld, Live
  <2>7. ReleasesCurrent'
    BY <1>1, <1>2, <2>1 DEF RuntimeTyped, ReleasesCurrent
  <2>8. TransferBound'
    BY <1>1, <1>2, <2>1, <2>2 DEF TransferBound
  <2> QED
    BY <1>1, <1>3, <2>4, <2>5, <2>6, <2>7, <2>8
<1>5. ASSUME NEW complete \in BOOLEAN, Launch(t, complete)
      PROVE  RuntimeInv' /\ UNCHANGED screen
  <2>1. /\ stream' = [token |-> t, state |-> "running", screen |-> screen, release |-> prepared,
                      ends |-> ~complete, takenBy |-> Nobody]
        /\ takeover' = Nobody /\ UNCHANGED releases
    BY <1>5 DEF Launch
  <2>2. stream'.screen = screen /\ stream'.takenBy = Nobody
    BY <2>1
  <2>3. stream' \in Streams
    <3>1. prepared \in BOOLEAN /\ screen \in Screens /\ t \in Screens /\ Nobody \in Screens
      BY Zenon DEF Flagged, RuntimeTyped, Screens
    <3>2. (~complete) \in BOOLEAN /\ "running" \in {"none", "running", "stopping", "stopped"}
      OBVIOUS
    <3> QED
      BY ONLY <2>1, <3>1, <3>2, Zenon DEF Streams
  <2> QED
    BY <1>1, <1>2, <2>1, <2>2, <2>3
       DEF RuntimeTyped, OneOperation, ScreenHeld, ReleasesCurrent, TransferBound, Screens, Live
<1> QED
  BY <1>1, <1>3, <1>4, <1>5

\* The stream's queue.
LEMMA StreamStep ==
  ASSUME RuntimeInv, StreamStops \/ StreamDrained \/ \E t \in Clients : TakeOver(t)
  PROVE  RuntimeInv' /\ UNCHANGED screen
<1> USE DEF RuntimeInv
<1>1. UNCHANGED <<tokens, takeover, op, displayGeneration, screen, request>>
  BY DEF StreamStops, StreamDrained, TakeOver
<1>2. stream \in Streams
  BY DEF RuntimeTyped
<1>3. CASE StreamStops
  <2>1. /\ stream' \in Streams /\ stream'.state = "stopping" /\ stream'.screen = stream.screen
        /\ stream'.takenBy = stream.takenBy /\ Live /\ UNCHANGED releases
    BY <1>2, <1>3, StreamFields DEF StreamStops, Live, Screens
  <2> QED
    BY <1>1, <2>1
       DEF RuntimeTyped, OneOperation, ScreenHeld, ReleasesCurrent, TransferBound, Live
<1>4. ASSUME NEW t \in Clients, TakeOver(t) PROVE RuntimeInv'
  <2>1. UNCHANGED releases
    BY <1>4 DEF TakeOver
  <2>2. CASE UNCHANGED stream
    BY <1>1, <2>1, <2>2
       DEF RuntimeTyped, OneOperation, ScreenHeld, ReleasesCurrent, TransferBound, Live
  <2>3. CASE stream' = [stream EXCEPT !.ends = TRUE, !.takenBy = KeptTakeover]
    <3>1. KeptTakeover \in Screens /\ (KeptTakeover # Nobody => takeover = KeptTakeover /\ takeover \in tokens)
      BY DEF KeptTakeover, RuntimeTyped, Screens
    <3>2. /\ stream' \in Streams /\ stream'.state = stream.state /\ stream'.screen = stream.screen
          /\ stream'.takenBy = KeptTakeover
      BY <1>2, <2>3, <3>1, StreamFields
    <3> QED
      BY <1>1, <2>1, <3>1, <3>2
         DEF RuntimeTyped, OneOperation, ScreenHeld, ReleasesCurrent, TransferBound, Live
  <2> QED
    BY <1>4, <2>2, <2>3 DEF TakeOver
<1>5. CASE StreamDrained
  <2>1. /\ stream' \in Streams /\ stream'.state = "stopped" /\ stream'.takenBy = stream.takenBy
        /\ Live
    BY <1>2, <1>5, StreamFields DEF StreamDrained, Live, Screens
  <2>2. \A r \in releases' : r \in releases \/ r = AtShutdown
                             \/ r = [token |-> screen, gen |-> displayGeneration]
    BY <1>5, <2>1 DEF StreamDrained, ScreenHeld
  <2>3. releases' \subseteq ReleaseCalls /\ releases \subseteq releases'
    BY <1>5, <2>2 DEF StreamDrained, RuntimeTyped, ReleaseCalls, AtShutdown, Screens
  <2>4. \A k \in Clients : request[k].pc \notin {"prepare", "check"}
    BY <2>1 DEF ScreenHeld
  <2>5. op \notin releases'
    <3>1. op \in Screens
      BY <2>1 DEF OneOperation, ScreenHeld
    <3> QED
      BY <2>3, <3>1, HostRuntimeAssumption DEF Screens
  <2>6. RuntimeTyped'
    BY <1>1, <2>1, <2>3 DEF RuntimeTyped
  <2>7. OneOperation'
    BY <1>1, <2>3 DEF OneOperation
  <2>8. ScreenHeld'
    BY <1>1, <2>1, <2>4, <2>5 DEF ScreenHeld, Live
  <2>9. ReleasesCurrent'
    BY <1>1, <2>2, <2>4 DEF RuntimeTyped, ReleasesCurrent, AtShutdown
  <2>10. TransferBound'
    BY <1>1, <2>1 DEF TransferBound
  <2> QED
    BY <1>1, <2>6, <2>7, <2>8, <2>9, <2>10
<1> QED
  BY <1>1, <1>3, <1>4, <1>5

\* Releases of the screen and its recovery, which only run where no stream does.
LEMMA ReleaseStep ==
  ASSUME RuntimeInv, ReleaseSteps \/ \E restored \in BOOLEAN : RecoverTopology(restored)
  PROVE  /\ RuntimeInv'
         /\ screen' # screen => ~Live /\ (op \in releases => op.token = screen \/ op = AtShutdown)
<1> USE DEF RuntimeInv
<1>1. UNCHANGED <<tokens, takeover, stream, request>>
  BY DEF ReleaseSteps, ReleaseStarts, ReleaseRuns, RecoverTopology
<1>2. \A r \in releases : r.gen \in Int
  BY DEF RuntimeTyped, ReleaseCalls
<1>3. ASSUME NEW r \in releases, ReleaseStarts(r) PROVE RuntimeInv' /\ UNCHANGED screen
  <2>1. op = Nobody /\ UNCHANGED <<displayGeneration, screen>>
    BY <1>3 DEF ReleaseStarts
  <2>2. (\A k \in Clients : request[k].pc = "idle") /\ op \notin releases
    BY <2>1, NoneInProgress
  <2>3. CASE UNCHANGED op /\ releases' = releases \ {r}
    BY <1>1, <2>1, <2>2, <2>3
       DEF RuntimeTyped, OneOperation, ScreenHeld, ReleasesCurrent, TransferBound, Screens, Live
  <2>4. CASE op' = r /\ UNCHANGED releases /\ ~Live /\ (r = AtShutdown \/ r.gen = displayGeneration)
    BY <1>1, <2>1, <2>2, <2>4
       DEF RuntimeTyped, OneOperation, ScreenHeld, ReleasesCurrent, TransferBound, Screens, Live
  <2> QED
    BY <1>3, <2>1, <2>3, <2>4 DEF ReleaseStarts
<1>4. ASSUME NEW r \in releases, NEW restored \in BOOLEAN, ReleaseRuns(r, restored)
      PROVE  RuntimeInv' /\ ~Live /\ (op.token = screen \/ op = AtShutdown)
  <2>1. op = r /\ op' = Nobody /\ releases' = releases \ {r} /\ Restore(restored)
    BY <1>4 DEF ReleaseRuns
  <2>2. /\ displayGeneration' = displayGeneration + 1 /\ displayGeneration' \in Nat
        /\ screen' \in {screen, Nobody}
        /\ \A x \in releases : x.gen < displayGeneration'
    BY <2>1, Restores
  <2>3. ~Live /\ (op.token = screen \/ op = AtShutdown)
    BY <2>1 DEF ScreenHeld, ReleasesCurrent
  <2>4. \A k \in Clients : request[k].pc = "idle"
    BY <2>1, Alone
  <2>5. Nobody \notin releases'
    BY <2>1, NotARelease DEF Screens
  <2>6. RuntimeTyped' /\ OneOperation'
    BY <1>1, <2>1, <2>2, <2>4 DEF RuntimeTyped, OneOperation, Screens
  <2>7. ScreenHeld' /\ TransferBound'
    BY <1>1, <2>1, <2>3, <2>4, <2>5 DEF ScreenHeld, TransferBound, Live
  <2>8. ReleasesCurrent'
    BY <1>1, <1>2, <2>1, <2>2, <2>4 DEF ReleasesCurrent
  <2> QED
    BY <2>3, <2>6, <2>7, <2>8
<1>5. ASSUME NEW restored \in BOOLEAN, RecoverTopology(restored)
      PROVE  RuntimeInv' /\ ~Live /\ op \notin releases
  <2>1. op = Nobody /\ ~Live /\ UNCHANGED <<op, releases>> /\ Restore(restored)
    BY <1>5 DEF RecoverTopology
  <2>2. /\ displayGeneration' = displayGeneration + 1 /\ displayGeneration' \in Nat
        /\ screen' \in {screen, Nobody}
        /\ \A x \in releases : x.gen < displayGeneration'
    BY <2>1, Restores
  <2>3. (\A k \in Clients : request[k].pc = "idle") /\ op \notin releases
    BY <2>1, NoneInProgress
  <2> QED
    BY <1>1, <1>2, <2>1, <2>2, <2>3
       DEF RuntimeTyped, OneOperation, ScreenHeld, ReleasesCurrent, TransferBound, Screens, Live
<1> QED
  BY <1>3, <1>4, <1>5 DEF ReleaseSteps

\* The ends of reservations, the requests that begin and the beginning of the end.
LEMMA OtherStep ==
  ASSUME RuntimeInv,
         \/ \E t \in Clients : \/ \E consent \in Screens : PrepareReserve(t, consent)
                               \/ TokenEnds(t)
         \/ ReservationEnds \/ StopAsked \/ StopRuns \/ UNCHANGED runtimeVars
  PROVE  RuntimeInv' /\ UNCHANGED screen
<1> USE DEF RuntimeInv
<1>1. UNCHANGED <<displayGeneration, screen>>
  BY DEF PrepareReserve, TokenEnds, ReservationEnds, StopAsked, StopRuns, runtimeVars
<1>2. ASSUME NEW t \in Clients, NEW consent \in Screens, PrepareReserve(t, consent)
      PROVE  RuntimeInv'
  <2> DEFINE q == [pc |-> "decide", consent |-> consent]
  <2>1. /\ op = Nobody /\ op' = t /\ request' = [request EXCEPT ![t] = q]
        /\ UNCHANGED <<tokens, takeover, stream, releases>>
    BY <1>2 DEF PrepareReserve
  <2>2. q \in Requests /\ q.pc = "decide"
    BY DEF Requests
  <2> HIDE DEF q
  <2>3. (\A k \in Clients : request[k].pc = "idle") /\ t \notin releases
    BY <2>1, NoneInProgress, NotARelease DEF Screens
  <2>4. /\ request' \in [Clients -> Requests] /\ request'[t].pc = "decide"
        /\ \A k \in Clients : k # t => request'[k].pc = "idle"
    BY <2>1, <2>2, <2>3 DEF RuntimeTyped
  <2> QED
    BY <1>1, <2>1, <2>3, <2>4
       DEF RuntimeTyped, OneOperation, ScreenHeld, ReleasesCurrent, TransferBound, Screens, Live
<1>3. ASSUME NEW t \in Clients, TokenEnds(t) PROVE RuntimeInv'
  <2>1. /\ tokens' = tokens \ {t} /\ stream' = Lapse(t)
        /\ UNCHANGED <<takeover, op, request, releases>>
    BY <1>3 DEF TokenEnds
  <2> DEFINE x == IF stream.takenBy = t THEN Nobody ELSE stream.takenBy
  <2>2. x \in Screens /\ stream' = [stream EXCEPT !.takenBy = x] /\ stream \in Streams
    BY <2>1 DEF Lapse, RuntimeTyped, Streams, Screens
  <2>3. /\ stream' \in Streams /\ stream'.state = stream.state /\ stream'.screen = stream.screen
        /\ stream'.takenBy = x
    BY <2>2, StreamFields
  <2> QED
    BY <1>1, <2>1, <2>3
       DEF RuntimeTyped, OneOperation, ScreenHeld, ReleasesCurrent, TransferBound, Live
<1>4. CASE ReservationEnds
  <2>1. /\ takeover # Nobody /\ request[takeover].pc # "wait"
        /\ stream' = Lapse(takeover) /\ takeover' = Nobody
        /\ UNCHANGED <<tokens, op, request, releases>>
    BY <1>4 DEF ReservationEnds
  <2>2. stream' = [stream EXCEPT !.takenBy = Nobody]
    BY <2>1 DEF Lapse, TransferBound
  <2>3. /\ stream' \in Streams /\ stream'.state = stream.state /\ stream'.screen = stream.screen
        /\ stream'.takenBy = Nobody
    BY <2>2, StreamFields DEF RuntimeTyped, Screens
  <2>4. \A k \in Clients : request[k].pc # "wait"
    BY <2>1 DEF TransferBound
  <2> QED
    BY <1>1, <2>1, <2>3, <2>4
       DEF RuntimeTyped, OneOperation, ScreenHeld, ReleasesCurrent, TransferBound, Screens, Live
<1>5. CASE StopAsked \/ UNCHANGED runtimeVars
  BY <1>5 DEF StopAsked, runtimeVars, RuntimeTyped, OneOperation, ScreenHeld, ReleasesCurrent,
              TransferBound, Live
<1>6. CASE StopRuns
  <2>1. UNCHANGED <<tokens, takeover, op, request>>
    BY <1>6 DEF StopRuns
  <2>2. CASE Live
    <3>1. stream' = [stream EXCEPT !.ends = TRUE] /\ UNCHANGED releases
      BY <1>6, <2>2 DEF StopRuns
    <3>2. /\ stream' \in Streams /\ stream'.state = stream.state /\ stream'.screen = stream.screen
          /\ stream'.takenBy = stream.takenBy
      BY <3>1, StreamFields DEF RuntimeTyped, Screens
    <3> QED
      BY <1>1, <2>1, <3>1, <3>2
         DEF RuntimeTyped, OneOperation, ScreenHeld, ReleasesCurrent, TransferBound, Live
  <2>3. CASE ~Live
    <3>1. releases' = releases \cup {AtShutdown} /\ UNCHANGED stream
      BY <1>6, <2>3 DEF StopRuns
    <3>2. releases' \subseteq ReleaseCalls
      BY <3>1 DEF RuntimeTyped, ReleaseCalls, AtShutdown
    <3>3. op \in releases' => op \in releases
      <4>1. CASE op \in Screens
        BY <3>2, <4>1, HostRuntimeAssumption DEF Screens
      <4> QED
        BY <4>1 DEF OneOperation
    <3>4. RuntimeTyped' /\ OneOperation'
      BY <1>1, <2>1, <3>1, <3>2 DEF RuntimeTyped, OneOperation
    <3>5. ScreenHeld' /\ TransferBound'
      BY <1>1, <2>1, <3>1, <3>3 DEF ScreenHeld, TransferBound, Live
    <3>6. ReleasesCurrent'
      BY <1>1, <2>1, <3>1 DEF RuntimeTyped, ReleasesCurrent, AtShutdown
    <3> QED
      BY <1>1, <3>4, <3>5, <3>6
  <2> QED
    BY <2>2, <2>3
<1> QED
  BY <1>1, <1>2, <1>3, <1>4, <1>5, <1>6

\* Every step of the runtime keeps the invariant and says what it does to the screen and
\* to a session that was taken over.
LEMMA RuntimeStep ==
  ASSUME RuntimeInv, Flagged, [RuntimeNext]_runtimeVars
  PROVE  /\ RuntimeInv' /\ Flagged'
         /\ screen' # screen => ~Live /\ (op \in releases => op.token = screen \/ op = AtShutdown)
         /\ stream'.state = "running" /\ stream.state # "running" /\ stream.takenBy # Nobody =>
              stream'.token = stream.takenBy
<1>1. Flagged'
  <2>0. mirrors \in BOOLEAN /\ prepared \in BOOLEAN
    BY DEF Flagged
  <2>1. ASSUME NEW restored \in BOOLEAN, Restore(restored) PROVE prepared' \in BOOLEAN
    BY <2>0, <2>1 DEF Restore
  <2>2. ASSUME NEW t \in Clients, RequestSteps(t)
        PROVE  /\ mirrors' = mirrors
               /\ prepared' = prepared \/ prepared' = mirrors
                  \/ \E restored \in BOOLEAN : Restore(restored)
    BY <2>2 DEF RequestSteps, PrepareDecide, ReserveTakeover, RecordTakeover, DrainTimesOut,
                DrainAnswers, PrepareRestore, PrepareScreen, PrepareCheck
  <2>3. ASSUME ReleaseSteps \/ \E restored \in BOOLEAN : RecoverTopology(restored)
        PROVE  mirrors' = mirrors /\ prepared' \in BOOLEAN
    BY <2>0, <2>1, <2>3 DEF ReleaseSteps, ReleaseStarts, ReleaseRuns, RecoverTopology
  <2>4. ASSUME \/ \E t \in Clients : \/ \E consent \in Clients \cup {Nobody} : PrepareReserve(t, consent)
                                     \/ LaunchFails(t) \/ TakeOver(t) \/ TokenEnds(t)
                                     \/ \E complete \in BOOLEAN : Launch(t, complete)
               \/ StreamStops \/ StreamDrained \/ ReservationEnds \/ StopAsked \/ StopRuns
               \/ UNCHANGED runtimeVars
        PROVE  mirrors' = mirrors /\ prepared' = prepared
    BY <2>4 DEF PrepareReserve, LaunchFails, TakeOver, TokenEnds, Launch, StreamStops, StreamDrained,
                ReservationEnds, StopAsked, StopRuns, runtimeVars
  <2> QED
    BY <2>0, <2>1, <2>2, <2>3, <2>4 DEF RuntimeNext, Flagged
<1>2. ASSUME NEW t \in Clients, RequestSteps(t)
      PROVE  /\ RuntimeInv' /\ stream'.state = stream.state
             /\ screen' # screen => ~Live /\ op \notin releases
  <2>1. RuntimeInv'
    BY <1>2, RequestStep
  <2>2. stream \in Streams /\ Lapse(t).state = stream.state
    BY DEF RuntimeInv, RuntimeTyped, Streams, Lapse
  <2>3. stream'.state = stream.state
    BY <1>2, <2>2 DEF RequestSteps, PrepareDecide, ReserveTakeover, RecordTakeover, DrainTimesOut,
                      DrainAnswers, PrepareRestore, PrepareScreen, PrepareCheck
  <2>4. screen' # screen => request[t].pc \in {"restore", "prepare", "check"}
    BY <1>2 DEF RequestSteps, PrepareDecide, ReserveTakeover, RecordTakeover, DrainTimesOut,
                DrainAnswers, PrepareRestore, PrepareScreen, PrepareCheck
  <2>5. screen' # screen /\ request[t].pc = "restore" => ~Live
    BY <1>2 DEF RequestSteps, PrepareDecide, ReserveTakeover, RecordTakeover, DrainTimesOut,
                DrainAnswers, PrepareRestore, PrepareScreen, PrepareCheck
  <2> QED
    BY <2>1, <2>3, <2>4, <2>5, Alone DEF RuntimeInv, ScreenHeld
<1>3. ASSUME NEW t \in Clients, LaunchFails(t) \/ \E complete \in BOOLEAN : Launch(t, complete)
      PROVE  /\ RuntimeInv' /\ UNCHANGED screen
             /\ stream'.state = "running" /\ stream.takenBy # Nobody => stream'.token = stream.takenBy
  <2>1. /\ RuntimeInv' /\ UNCHANGED screen
        /\ stream.takenBy # Nobody => t = stream.takenBy
    BY <1>3, LaunchStep
  <2>2. stream'.state = "running" => stream'.token = t
    BY <1>3 DEF LaunchFails, Launch, NoStream
  <2> QED
    BY <2>1, <2>2
<1>4. CASE StreamStops \/ StreamDrained \/ \E t \in Clients : TakeOver(t)
  <2>1. RuntimeInv' /\ UNCHANGED screen
    BY <1>4, StreamStep
  <2>2. stream \in Streams /\ KeptTakeover \in Screens
    BY DEF RuntimeInv, RuntimeTyped, KeptTakeover, Screens
  <2>3. stream'.state = "running" => stream.state = "running"
    BY <1>4, <2>2, StreamFields DEF StreamStops, StreamDrained, TakeOver
  <2> QED
    BY <1>1, <2>1, <2>3
<1>5. CASE ReleaseSteps \/ \E restored \in BOOLEAN : RecoverTopology(restored)
  <2>1. UNCHANGED stream
    BY <1>5 DEF ReleaseSteps, ReleaseStarts, ReleaseRuns, RecoverTopology
  <2> QED
    BY <1>1, <1>5, <2>1, ReleaseStep
<1>6. CASE \/ \E t \in Clients : \/ \E consent \in Screens : PrepareReserve(t, consent)
                                 \/ TokenEnds(t)
           \/ ReservationEnds \/ StopAsked \/ StopRuns \/ UNCHANGED runtimeVars
  <2>1. RuntimeInv' /\ UNCHANGED screen
    BY <1>6, OtherStep
  <2>2. stream \in Streams
    BY DEF RuntimeInv, RuntimeTyped
  <2>3. stream'.state = stream.state
    BY <1>6, <2>2 DEF PrepareReserve, TokenEnds, ReservationEnds, StopAsked, StopRuns, runtimeVars,
                      Lapse, Streams
  <2> QED
    BY <1>1, <2>1, <2>3
<1> QED
  BY <1>1, <1>2, <1>3, <1>4, <1>5, <1>6 DEF RuntimeNext, Screens

\* The inductive invariant of the runtime.
THEOREM RuntimeInvariance == RuntimeSpec => [](RuntimeInv /\ Flagged)
<1>1. RuntimeInit => RuntimeInv /\ Flagged
  BY RuntimeStart DEF RuntimeInit, Flagged
<1>2. RuntimeInv /\ Flagged /\ [RuntimeNext]_runtimeVars =>
        (RuntimeInv /\ Flagged)'
  BY RuntimeStep
<1> QED
  BY <1>1, <1>2, PTL DEF RuntimeSpec

\* host-runtime.m never changes the screen under a stream that captures or drains, nor
\* on behalf of a release that was meant for another screen.
THEOREM ScreenKept == RuntimeSpec => DisplayKept
<1>1. RuntimeInv /\ Flagged /\ [RuntimeNext]_runtimeVars =>
        [screen' # screen =>
           /\ ~Live
           /\ op \in releases => op.token = screen \/ op = AtShutdown]_runtimeVars
  BY RuntimeStep
<1> QED
  BY <1>1, RuntimeInvariance, PTL DEF RuntimeSpec, DisplayKept

\* After a takeover the next session is the one of the client that took over, for as
\* long as its reservation stands.
THEOREM Transfer == RuntimeSpec => TransferHonoured
<1>1. RuntimeInv /\ Flagged /\ [RuntimeNext]_runtimeVars =>
        [stream'.state = "running" /\ stream.state # "running" /\ stream.takenBy # Nobody =>
           stream'.token = stream.takenBy]_runtimeVars
  BY RuntimeStep
<1> QED
  BY <1>1, RuntimeInvariance, PTL DEF RuntimeSpec, TransferHonoured

===============================================================================
