----------------------------- MODULE AuthSession -----------------------------
(***************************************************************************)
(* PLANKMacAuthenticationSession                                           *)
(* (apps/host/macos/auth/authentication-session.m): password challenges,   *)
(* setup tokens, the single stream lease and the takeover reservation of   *)
(* one macOS Host, with the policy of auth/account-policy.h.               *)
(*                                                                         *)
(* Each method is one @synchronized block and one action here, except      *)
(* respondForPeer: it leaves the lock while the account is verified and    *)
(* takes it twice more, so it is RespondBegin, RespondDecide, RespondEnd.  *)
(* Calls that are refused, and those that only look, do nothing but prune: *)
(* they are the action Refused.  An identifier is random and never repeats *)
(* (SecRandomCopyBytes, 32 bytes): it is an unused element of a set.       *)
(***************************************************************************)
EXTENDS Integers, FiniteSets

CONSTANTS
  Peers,            \* canonical peer addresses
  Accounts,         \* accounts a password can verify
  Root,             \* the account that may never attach
  Scopes,           \* graphical scopes (one per generation) the owner reports
  Owner,            \* the account of a desktop scope, SignIn for LoginWindow
  SignIn, Unavailable,
  Conversations,    \* identifiers of challenges
  Tokens,           \* identifiers of setup tokens, each issued at most once
  MaximumPendingChallenges, MaximumSetupTokens,
  ChallengeLife, TokenLife, LeaseLife, TakeoverLife,    \* 120, 300, 15, 15 s
  MaxTime,          \* bound: the last tick of the clock
  MaxRevocations    \* bound: how often everything is revoked

ASSUME LifeAssumption ==
  /\ ChallengeLife \in Nat /\ TokenLife \in Nat /\ LeaseLife \in Nat /\ TakeoverLife \in Nat
  /\ MaximumPendingChallenges \in Nat /\ MaximumSetupTokens \in Nat
  /\ MaxTime \in Nat /\ MaxRevocations \in Nat
ASSUME ScopeAssumption ==
  /\ Unavailable \notin Scopes /\ SignIn \notin Accounts
  /\ Owner \in [Scopes -> (Accounts \ {Root}) \cup {SignIn}]

VARIABLES
  now,          \* monotonicSeconds
  scope,        \* what the trusted snapshot reports: a scope or Unavailable
  retired,      \* scopes that were replaced or lost; the snapshot latches that
  pending,      \* _pending
  tokens,       \* _tokens
  lease,        \* _lease: no lease or one
  takeover,     \* _takeoverToken: no token or one
  takeoverDeadline,
  generation,   \* _revocationGeneration
  verify,       \* the response being verified (_verifying): none or one
  used          \* tokens issued so far

authVars == <<now, scope, retired, pending, tokens, lease, takeover, takeoverDeadline,
          generation, verify, used>>
environment == <<now, scope, retired>>

\* A record keeps the generation in force when its challenge was issued (history).
Challenges == [id : Conversations, peer : Peers, user : Accounts, scope : Scopes,
               expires : Int, epoch : Nat]
Verifications == [id : Conversations, peer : Peers, user : Accounts, scope : Scopes,
                  epoch : Nat, started : Nat, decided : BOOLEAN]
SetupTokens == [id : Tokens, peer : Peers, account : Accounts, scope : Scopes,
                expires : Int, epoch : Nat]
Leases == [id : Tokens, peer : Peers, account : Accounts, scope : Scopes,
           activateBefore : Int, active : BOOLEAN, epoch : Nat]

AuthInit ==
  /\ now = 0
  /\ scope \in Scopes \cup {Unavailable} /\ retired = {}
  /\ pending = {} /\ tokens = {} /\ lease = {}
  /\ takeover = {} /\ takeoverDeadline = 0
  /\ generation = 0 /\ verify = {} /\ used = {}

-----------------------------------------------------------------------------
(* account-policy.h.  Scopes are told apart by their generation.           *)

SameScope(before, after) == before \in Scopes /\ before = after

MayAttach(account, before, after) ==
  /\ account # Root
  /\ SameScope(before, after)
  /\ Owner[after] \in {SignIn, account}

(* prune: what every call first throws away.                               *)

Live(records) == {r \in records : r.expires > now /\ SameScope(r.scope, scope)}

LiveTakeover == {t \in takeover : now < takeoverDeadline /\ \E r \in Live(tokens) : r.id = t}

LiveLease == {l \in lease : (l.active \/ l.activateBefore > now) /\ MayAttach(l.account, l.scope, scope)}

-----------------------------------------------------------------------------
(* The world around the session.                                           *)

Tick ==
  /\ now < MaxTime
  /\ now' = now + 1
  /\ UNCHANGED <<scope, retired, pending, tokens, lease, takeover, takeoverDeadline,
                 generation, verify, used>>

\* The owner of the graphical session changes or goes away, for good.
ChangeScope ==
  /\ scope' \in (Scopes \ retired) \cup {Unavailable} /\ scope' # scope
  /\ retired' = retired \cup ({scope} \ {Unavailable})
  /\ UNCHANGED <<now, pending, tokens, lease, takeover, takeoverDeadline, generation,
                 verify, used>>

-----------------------------------------------------------------------------
(* Challenges.                                                             *)

StartForPeer(peer, user) ==
  LET pruned == Live(pending)
  IN  /\ Cardinality(pruned) < MaximumPendingChallenges
      /\ scope # Unavailable
      /\ \E c \in Conversations :
           /\ \A r \in pruned \cup verify : r.id # c
           /\ pending' = pruned \cup {[id |-> c, peer |-> peer, user |-> user, scope |-> scope,
                                       expires |-> now + ChallengeLife, epoch |-> generation]}
      /\ tokens' = Live(tokens) /\ lease' = LiveLease /\ takeover' = LiveTakeover
      /\ UNCHANGED <<environment, takeoverDeadline, generation, verify, used>>

\* Mutation: the challenge stays answerable while it is verified.
RespondBeginReplayable(challenge) ==
  /\ challenge \in Live(pending)
  /\ pending' = Live(pending)
  /\ verify = {}
  /\ verify' = {[id |-> challenge.id, peer |-> challenge.peer, user |-> challenge.user,
                 scope |-> challenge.scope, epoch |-> challenge.epoch,
                 started |-> generation, decided |-> FALSE]}
  /\ tokens' = Live(tokens) /\ lease' = LiveLease /\ takeover' = LiveTakeover
  /\ UNCHANGED <<environment, takeoverDeadline, generation, used>>

\* The challenge is consumed before anything is verified, even when the answer is
\* `busy' because another one is being verified.
RespondBegin(challenge) ==
  /\ challenge \in Live(pending)
  /\ pending' = Live(pending) \ {challenge}
  /\ verify' = IF verify # {} THEN verify
               ELSE {[id |-> challenge.id, peer |-> challenge.peer, user |-> challenge.user,
                      scope |-> challenge.scope, epoch |-> challenge.epoch,
                      started |-> generation, decided |-> FALSE]}
  /\ tokens' = Live(tokens) /\ lease' = LiveLease /\ takeover' = LiveTakeover
  /\ UNCHANGED <<environment, takeoverDeadline, generation, used>>

\* Mutation: a reserved token is superseded too.
SupersededEvenReserved(v) == {r \in Live(tokens) : r.peer = v.peer /\ r.account = v.user}
\* Setup tokens of the same peer and account, except one reserved for a takeover.
Superseded(v) ==
  {r \in Live(tokens) : r.id \notin LiveTakeover /\ r.peer = v.peer /\ r.account = v.user}

\* Mutation: off by one against the limit.
RoomForOneMore(v) ==
  /\ v.started = generation
  /\ MayAttach(v.user, v.scope, scope)
  /\ Cardinality(Live(tokens)) - Cardinality(Superseded(v)) <= MaximumSetupTokens

\* What still has to hold once the password has been verified.
Grantable(v) ==
  /\ SameScope(v.scope, scope)
  /\ v.started = generation
  /\ MayAttach(v.user, v.scope, scope)
  /\ Cardinality(Live(tokens)) - Cardinality(Superseded(v)) < MaximumSetupTokens

Decided(v) == {[v EXCEPT !.decided = TRUE]}

RespondGrant(v) ==
  /\ v \in verify /\ ~v.decided /\ Grantable(v)
  /\ \E t \in Tokens \ used :
       /\ tokens' = (Live(tokens) \ Superseded(v)) \cup
                    {[id |-> t, peer |-> v.peer, account |-> v.user, scope |-> v.scope,
                      expires |-> now + TokenLife, epoch |-> v.epoch]}
       /\ used' = used \cup {t}
  /\ verify' = Decided(v)
  /\ pending' = Live(pending) /\ lease' = LiveLease /\ takeover' = LiveTakeover
  /\ UNCHANGED <<environment, takeoverDeadline, generation>>

\* Rejected, unavailable, handed off, revoked meanwhile, not the owner, or full.
RespondRefuse(v) ==
  /\ v \in verify /\ ~v.decided
  /\ verify' = Decided(v)
  /\ pending' = Live(pending) /\ tokens' = Live(tokens)
  /\ lease' = LiveLease /\ takeover' = LiveTakeover
  /\ UNCHANGED <<environment, takeoverDeadline, generation, used>>

\* Mutation: only a granted response gives the verifier back.
RespondEndGranted(v) ==
  /\ v \in verify /\ v.decided
  /\ \E r \in tokens : r.peer = v.peer /\ r.account = v.user
  /\ verify' = {}
  /\ UNCHANGED <<environment, pending, tokens, lease, takeover, takeoverDeadline,
                 generation, used>>

\* @finally { _verifying = NO }
RespondEnd(v) ==
  /\ v \in verify /\ v.decided
  /\ verify' = {}
  /\ UNCHANGED <<environment, pending, tokens, lease, takeover, takeoverDeadline,
                 generation, used>>

-----------------------------------------------------------------------------
(* Tokens, the lease and takeovers.                                        *)

\* authorizeToken: the live token of this peer, if its account may attach.
Authorized(t, peer) ==
  {r \in Live(tokens) : r.id = t /\ r.peer = peer /\ MayAttach(r.account, r.scope, scope)}

RevokeAll ==
  /\ generation < MaxRevocations
  /\ generation' = generation + 1
  /\ pending' = {} /\ tokens' = {} /\ takeover' = {} /\ lease' = {}
  /\ UNCHANGED <<environment, takeoverDeadline, verify, used>>

\* revokeToken: also the lease that was claimed with the token.
RevokeToken(t) ==
  /\ takeover' = takeover \ {t}
  /\ tokens' = {r \in tokens : r.id # t}
  /\ lease' = {l \in lease : l.id # t}
  /\ UNCHANGED <<environment, pending, takeoverDeadline, generation, verify, used>>

\* claimToken: the token is exchanged for the lease, which must be free.
ClaimToken(t, peer) ==
  /\ LiveLease = {}
  /\ \E r \in Authorized(t, peer) :
       /\ lease' = {[id |-> t, peer |-> peer, account |-> r.account, scope |-> r.scope,
                     activateBefore |-> now + LeaseLife, active |-> FALSE, epoch |-> r.epoch]}
       /\ tokens' = Live(tokens) \ {r}
  /\ pending' = Live(pending) /\ takeover' = LiveTakeover
  /\ UNCHANGED <<environment, takeoverDeadline, generation, verify, used>>

\* A lease object is named by the token it was claimed with; a caller may still
\* hold one that has ended.
ActivateStreamLease(t) ==
  /\ \E l \in LiveLease : l.id = t /\ ~l.active
  /\ lease' = {[l EXCEPT !.active = TRUE] : l \in LiveLease}
  /\ pending' = Live(pending) /\ tokens' = Live(tokens) /\ takeover' = LiveTakeover
  /\ UNCHANGED <<environment, takeoverDeadline, generation, verify, used>>

EndStreamLease(t) ==
  /\ \E l \in lease : l.id = t
  /\ lease' = {}
  /\ UNCHANGED <<environment, pending, tokens, takeover, takeoverDeadline, generation,
                 verify, used>>

\* reserveTakeoverToken for the lease held under the name `held'.
ReserveTakeoverToken(t, peer, held) ==
  /\ \E r \in Authorized(t, peer), l \in LiveLease : l.id = held /\ r.account = l.account
  /\ LiveTakeover \subseteq {t}
  /\ takeover' = {t}
  /\ takeoverDeadline' = now + TakeoverLife
  /\ pending' = Live(pending) /\ tokens' = Live(tokens) /\ lease' = LiveLease
  /\ UNCHANGED <<environment, generation, verify, used>>

\* authorizeToken, authorizeStreamLease, authorizeTakeoverToken and
\* performWithStreamLease, and every call above that is refused after pruning.
Refused ==
  /\ pending' = Live(pending) /\ tokens' = Live(tokens)
  /\ lease' = LiveLease /\ takeover' = LiveTakeover
  /\ UNCHANGED <<environment, takeoverDeadline, generation, verify, used>>

-----------------------------------------------------------------------------

RespondFinish == \E v \in verify : RespondGrant(v) \/ RespondRefuse(v) \/ RespondEnd(v)

AuthNext ==
  \/ Tick \/ ChangeScope \/ RevokeAll \/ Refused \/ RespondFinish
  \/ \E peer \in Peers, user \in Accounts : StartForPeer(peer, user)
  \/ \E challenge \in pending : RespondBegin(challenge)
  \/ \E t \in Tokens :
       \/ RevokeToken(t) \/ ActivateStreamLease(t) \/ EndStreamLease(t)
       \/ \E peer \in Peers : ClaimToken(t, peer)
       \/ \E peer \in Peers, held \in Tokens : ReserveTakeoverToken(t, peer, held)

AuthSpec == AuthInit /\ [][AuthNext]_authVars

\* The account helper answers or is given up after its timeout.
AuthFairness == WF_authVars(RespondFinish)

-----------------------------------------------------------------------------
(* Properties.                                                             *)

AuthTypeOK ==
  /\ now \in Nat /\ scope \in Scopes \cup {Unavailable} /\ retired \subseteq Scopes
  /\ pending \subseteq Challenges /\ tokens \subseteq SetupTokens /\ lease \subseteq Leases
  /\ takeover \subseteq Tokens /\ takeoverDeadline \in Nat
  /\ generation \in Nat /\ verify \subseteq Verifications /\ used \subseteq Tokens

\* `At most one pending/active lease exists', one takeover, one verification.
AtMostOne ==
  /\ \A l, m \in lease : l = m
  /\ \A t, u \in takeover : t = u
  /\ \A v, w \in verify : v = w

\* A challenge, token or lease identifies its record; a token was issued once and is used
\* up by the exchange: what became a lease is no longer a setup token.
Identified ==
  /\ \A r, s \in pending : r.id = s.id => r = s
  /\ \A r, s \in tokens : r.id = s.id => r = s
  /\ \A r \in tokens : r.id \in used
  /\ \A l \in lease : l.id \in used /\ \A r \in tokens : r.id # l.id
  /\ takeover \subseteq used

\* Nothing obtained by a challenge from before a revokeAll outlives it, not even a
\* login that was being verified while everything was revoked.
RevocationIsFinal ==
  /\ \A r \in pending \cup tokens \cup lease : r.epoch = generation
  /\ \A v \in verify : v.epoch = v.started /\ v.started <= generation

\* Tokens and the lease belong to accounts their graphical scope admits: the owner
\* of a desktop, or a non-root account at LoginWindow.
AdmittedAccounts ==
  \A r \in tokens \cup lease : r.account # Root /\ Owner[r.scope] \in {SignIn, r.account}

\* A response is never replayed: its challenge is gone before it is verified.
ChallengeConsumed == \A v \in verify : \A r \in pending : r.id # v.id

\* A scope that was lost is never served again: only pruning stands between its
\* records and a caller, and no new record names it.
ScopesKnown ==
  /\ scope \notin retired
  /\ \A r \in pending \cup tokens \cup lease \cup verify : r.scope \in retired \cup {scope}

AuthInv ==
  /\ AuthTypeOK /\ AtMostOne /\ Identified /\ RevocationIsFinal /\ AdmittedAccounts
  /\ ChallengeConsumed /\ ScopesKnown

\* Both tables stay within their limits, whatever is superseded, pruned or refused.
WithinLimits ==
  /\ Cardinality(pending) <= MaximumPendingChallenges
  /\ Cardinality(tokens) <= MaximumSetupTokens

\* While a takeover is reserved, no other login takes its setup token away: the
\* token goes when it is claimed, revoked or no longer valid, and in no other way.
ReservationHolds ==
  [][\A t \in takeover, r \in tokens :
       r.id = t /\ r \notin tokens' =>
         \/ \E l \in lease' : l.id = t
         \/ RevokeToken(t) \/ RevokeAll
         \/ now >= r.expires \/ now >= takeoverDeadline \/ scope # r.scope]_authVars

\* The verifier is always given back: one stuck login cannot make every later one
\* `busy'.
VerificationEnds == verify # {} ~> verify = {}
=============================================================================
