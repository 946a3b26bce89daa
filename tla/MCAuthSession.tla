---------------------------- MODULE MCAuthSession ----------------------------
(* A small Host for TLC: two peers behind their addresses, two accounts and root,*)
(* a LoginWindow scope that gives way to a desktop.                              *)
EXTENDS AuthSession, TLC

CONSTANTS p1, p2, alice, bob, root, login, desktop, c1, c2, t1, t2, t3

MCOwner == login :> SignIn @@ desktop :> alice
MCSymmetry == Permutations({p1, p2}) \cup Permutations({c1, c2}) \cup Permutations({t1, t2, t3})
=============================================================================
