---- MODULE MCHostLive ----
(* The runtime of the macOS Host and the registry of its graphical processes;       *)
(* `probe' is the one that runs: they share no state but the scope of the desktop,   *)
(* whose change is an event of each.                                                 *)
EXTENDS HostRuntime, AgentRegistry

VARIABLE probe

MCInit ==
    /\ RuntimeInit /\ RegistryInit /\ probe \in {"runtime", "registry"}
    /\ probe = "registry" => mirrors = TRUE
MCNext ==
    \/ probe = "runtime" /\ RuntimeNext /\ UNCHANGED <<registryVars, probe>>
    \/ probe = "registry" /\ RegistryNext /\ UNCHANGED <<runtimeVars, probe>>
MCSpec ==
    /\ MCInit /\ [][MCNext]_<<runtimeVars, registryVars, probe>>
    /\ RuntimeFairness /\ RegistryFairness

\* RuntimeProgress and RegistryServes: no request, timer, shutdown, certificate or
\* exited process leaves the display or the graphical slot taken for good.
HostProgress == RuntimeProgress /\ RegistryServes
====
