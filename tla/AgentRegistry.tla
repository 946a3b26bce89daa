---- MODULE AgentRegistry ----
(***************************************************************************)
(* src/apps/host/macos/session/agent-registry.m and the controller of      *)
(* host-main.m that owns it: which process on the machine is the one       *)
(* graphical owner (display, capture, input), and the one-shot links that  *)
(* obtain a certificate.  Everything runs on one queue except the issuing  *)
(* of a certificate, so an action is a whole block of that queue.          *)
(*                                                                         *)
(* A process stands for its uid, pid and audit session together.  Message  *)
(* formats, the signing requirement and random generations are left out: a *)
(* malformed message, a wrong generation or sequence closes the link       *)
(* (Malformed).                                                            *)
(***************************************************************************)
EXTENDS Integers, FiniteSets

CONSTANTS
    Processes,        \* graphical processes, each started once
    Links,            \* XPC connections
    NoLink,           \* nil
    MaxLinks,         \* the limit in accept:
    MaxScopeChanges   \* bound: changes of what the system says about a process

ASSUME AgentRegistryAssumption ==
    /\ NoLink \notin Links /\ MaxLinks \in Nat \ {0} /\ MaxScopeChanges \in Nat

VARIABLES
    scope, changes,  \* [Processes -> phase the system observes], and how often it changed
    alive,           \* processes that have not exited
    links,           \* [Links -> [state, proc, phase, retired, identity, late]]
    active,          \* the current lease's authority
    current,         \* _current, kept while its process may still hold the display
    exitWatch,       \* the controller watches the current process's exit
    job,             \* the certificate being issued: [link, stage], or none
    registryStopped,
    granted          \* history: processes that ever got the lease

registryVars == <<scope, changes, alive, links, active, current, exitWatch, job, registryStopped, granted>>

Phases == {"login", "desktop"}
FreeLink == [state |-> "free", proc |-> NoLink, phase |-> "none", retired |-> FALSE,
             identity |-> "no", late |-> FALSE]
NoJob == [link |-> NoLink, stage |-> "none"]
issuing == job # NoJob

RegistryInit ==
    /\ scope = [p \in Processes |-> "desktop"] /\ changes = 0 /\ alive = Processes
    /\ links = [l \in Links |-> FreeLink] /\ current = NoLink /\ active = FALSE
    /\ exitWatch = FALSE /\ job = NoJob /\ registryStopped = FALSE /\ granted = {}

-----------------------------------------------------------------------------
(* Helpers *)

Open(l) == links[l].state = "open"
Owner == links[current].proc
InScope(p, phase) == p \in alive /\ scope[p] = phase

\* refresh: authority ends when the system no longer agrees with the lease.
Refreshed == active /\ InScope(Owner, links[current].phase)

\* What a closed link is still asked for: whose lease it holds while it is _current.
Closed(l) ==
    [links EXCEPT ![l] = IF l = current THEN [FreeLink EXCEPT !.proc = Owner, !.phase = links[l].phase]
                         ELSE FreeLink]

\* Mutation: closing the owner's link gives the slot away at once.
CloseFreesSlot(l) ==
    /\ links' = Closed(l)
    /\ active' = (active /\ l # current)
    /\ current' = IF l = current THEN NoLink ELSE current
    /\ UNCHANGED <<scope, changes, alive, exitWatch, job, registryStopped, granted>>

\* close: revokes the owner's authority but keeps _current.
Close(l) ==
    /\ links' = Closed(l)
    /\ active' = (active /\ l # current)
    /\ UNCHANGED <<scope, changes, alive, current, exitWatch, job, registryStopped, granted>>

-----------------------------------------------------------------------------
(* Connections and their messages *)

\* accept.  A connection object that nothing refers to any more is used again.
Accept(l, p) ==
    /\ ~registryStopped /\ p \in alive /\ ~Open(l) /\ l # current /\ l # job.link
    /\ Cardinality({k \in Links : Open(k)}) < MaxLinks
    /\ links' = [links EXCEPT ![l] = [FreeLink EXCEPT !.state = "open", !.proc = p]]
    /\ UNCHANGED <<scope, changes, alive, active, current, exitWatch, job, registryStopped, granted>>

\* A message that is no request, or no longer one this link may make.
Malformed(l) == ~registryStopped /\ Open(l) /\ Close(l)

HasLease(l) == links[l].phase # "none"

\* Operation 1.  While another process may still hold the display the answer is
\* "busy" and the link stays without a lease.
Register(l, watched) ==
    /\ ~registryStopped /\ Open(l) /\ links[l].identity = "no" /\ ~HasLease(l)
    /\ LET p == links[l].proc
       IN  /\ InScope(p, "login") \/ InScope(p, "desktop")
           /\ current = NoLink
           /\ links' = [links EXCEPT ![l].phase = scope[p]]
           /\ current' = l /\ granted' = granted \cup {p}
           /\ active' = watched /\ exitWatch' = watched
    /\ UNCHANGED <<scope, changes, alive, job, registryStopped>>

\* Operation 2, the watch's timer and every authority check refresh the lease.
RefreshLease ==
    /\ ~registryStopped /\ active /\ ~Refreshed
    /\ active' = FALSE
    /\ UNCHANGED <<scope, changes, alive, links, current, exitWatch, job, registryStopped, granted>>

\* Operation 3: the agent gives the lease back; its process may still run.
Retire(l) ==
    /\ ~registryStopped /\ Open(l) /\ l = current /\ ~links[l].retired
    /\ active' = FALSE /\ links' = [links EXCEPT ![l].retired = TRUE]
    /\ UNCHANGED <<scope, changes, alive, current, exitWatch, job, registryStopped, granted>>

\* Operation 5: one certificate at a time, for a link that has no lease.
RequestIdentity(l) ==
    /\ ~registryStopped /\ Open(l) /\ links[l].identity = "no" /\ ~HasLease(l) /\ ~issuing
    /\ InScope(links[l].proc, "desktop")
    /\ links' = [links EXCEPT ![l].identity = "asked"]
    /\ job' = [link |-> l, stage |-> "running"]
    /\ UNCHANGED <<scope, changes, alive, active, current, exitWatch, registryStopped, granted>>

\* The identity queue.
Issue ==
    /\ job.stage = "running" /\ job' = [job EXCEPT !.stage = "issued"]
    /\ UNCHANGED <<scope, changes, alive, links, active, current, exitWatch, registryStopped, granted>>

\* Back on the registry's queue: the link, the registry, the deadline and the desktop
\* are looked at again before the certificate leaves.
IdentityReply(wellFormed) ==
    /\ job.stage = "issued" /\ job' = NoJob
    /\ LET l == job.link
       IN  IF ~Open(l) \/ registryStopped THEN UNCHANGED <<links, active>>
           ELSE IF ~links[l].late /\ InScope(links[l].proc, "desktop") /\ wellFormed
             THEN links' = [links EXCEPT ![l].identity = "answered"] /\ UNCHANGED active
             ELSE /\ links' = Closed(l)
                  /\ active' = (active /\ l # current)
    /\ UNCHANGED <<scope, changes, alive, current, exitWatch, registryStopped, granted>>

-----------------------------------------------------------------------------
(* The watch, the controller and the world *)

\* The issuance deadline of a link passes.
Expire(l) ==
    /\ Open(l) /\ links[l].identity # "no" /\ ~links[l].late
    /\ links' = [links EXCEPT ![l].late = TRUE]
    /\ UNCHANGED <<scope, changes, alive, active, current, exitWatch, job, registryStopped, granted>>

\* That deadline, or five seconds without asking for anything.
WatchTick(l) ==
    /\ ~registryStopped /\ Open(l) /\ ~HasLease(l) /\ (links[l].identity = "no" \/ links[l].late)
    /\ Close(l)

\* The process exit that the kernel observed: revoke, completeRetirement.
ExitSeen ==
    /\ exitWatch /\ current # NoLink /\ Owner \notin alive
    /\ exitWatch' = FALSE /\ active' = FALSE /\ current' = NoLink
    /\ links' = [links EXCEPT ![current] = FreeLink]
    /\ UNCHANGED <<scope, changes, alive, job, registryStopped, granted>>

\* The peer's connection is gone.
Disconnect(l) == ~registryStopped /\ Open(l) /\ links[l].proc \notin alive /\ Close(l)

ScopeChanges(p, phase) ==
    /\ changes < MaxScopeChanges /\ scope[p] # phase
    /\ scope' = [scope EXCEPT ![p] = phase] /\ changes' = changes + 1
    /\ UNCHANGED <<alive, links, active, current, exitWatch, job, registryStopped, granted>>

ProcessExits(p) ==
    /\ p \in alive /\ alive' = alive \ {p}
    /\ UNCHANGED <<scope, changes, links, active, current, exitWatch, job, registryStopped, granted>>

RegistryStop ==
    /\ ~registryStopped /\ registryStopped' = TRUE /\ active' = FALSE
    /\ links' = [l \in Links |-> Closed(l)[l]]
    /\ UNCHANGED <<scope, changes, alive, current, exitWatch, job, granted>>

-----------------------------------------------------------------------------
RegistryNext ==
    \/ \E l \in Links :
         \/ \E p \in Processes : Accept(l, p)
         \/ \E watched \in BOOLEAN : Register(l, watched)
         \/ Malformed(l) \/ Retire(l) \/ RequestIdentity(l) \/ Expire(l) \/ WatchTick(l)
         \/ Disconnect(l)
    \/ \E p \in Processes :
         ProcessExits(p) \/ \E phase \in Phases \cup {"none"} : ScopeChanges(p, phase)
    \/ Issue \/ \E wellFormed \in BOOLEAN : IdentityReply(wellFormed)
    \/ RefreshLease \/ ExitSeen \/ RegistryStop

\* Queues are served, the timer fires every 250 ms and deadlines pass, the kernel
\* reports a watched exit, XPC reports a lost peer.  Agents promise nothing.
RegistryFairness ==
    /\ WF_registryVars(Issue \/ \E wellFormed \in BOOLEAN : IdentityReply(wellFormed))
    /\ WF_registryVars(ExitSeen)
    /\ \A l \in Links : WF_registryVars(Expire(l) \/ WatchTick(l))
RegistrySpec == RegistryInit /\ [][RegistryNext]_registryVars /\ RegistryFairness

-----------------------------------------------------------------------------
(* Properties *)

\* A process is the graphical owner only when every process that ever was has
\* exited: a lost link, a retirement, a revocation and a late exit notice do not
\* hand display, capture and input to a second one (host-main.m:127).  A link that
\* asks for a certificate never holds the lease (agent-registry.m:135).
OneGraphicalOwner ==
    /\ active => granted \cap alive \subseteq {Owner}
    /\ \A l \in Links : HasLease(l) => links[l].identity = "no"

\* Issuing ends and lets the next request in; a link without a lease, answered or
\* not, is closed in the end; and the slot of an exited owner whose exit is watched is free again.
RegistryServes ==
    /\ issuing ~> ~issuing
    /\ \A l \in Links : Open(l) /\ ~HasLease(l) ~> ~Open(l) \/ HasLease(l)
    /\ current # NoLink /\ exitWatch /\ Owner \notin alive ~> current = NoLink
====
