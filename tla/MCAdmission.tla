---- MODULE MCAdmission ----
(* What admits a Client and has to come to an end: the endpoint, which waits for the *)
(* application's decisions, and the login over its setup lane, which waits for the   *)
(* account helper; `probe' is the one that runs (they meet in the application only). *)
EXTENDS NativeEndpoint, AuthSession, TLC

CONSTANTS alice, bob, root, login, desktop

VARIABLE probe

MCOwner == login :> SignIn @@ desktop :> alice

MCInit ==
    /\ probe \in {"endpoint", "accounts"} /\ Init /\ AuthInit
    /\ probe = "accounts" => config = CHOOSE c \in Configs : TRUE
    /\ probe = "endpoint" => scope = login
MCNext ==
    \/ probe = "endpoint" /\ Next /\ UNCHANGED <<authVars, probe>>
    \/ probe = "accounts" /\ AuthNext /\ UNCHANGED <<vars, probe>>
MCSpec ==
    /\ MCInit /\ [][MCNext]_<<vars, authVars, probe>>
    /\ EndpointFairness /\ AuthFairness
====
