--------------------------- MODULE AuthSessionProofs ---------------------------
(***************************************************************************)
(* Proofs about AuthSession, for any peers, accounts, scopes, identifiers, *)
(* limits and lifetimes.                                                   *)
(***************************************************************************)
EXTENDS AuthSession, FiniteSetTheorems, TLAPS

USE LifeAssumption, ScopeAssumption

\* prune only ever forgets.
LEMMA PruneShrinks ==
  /\ \A records : Live(records) \subseteq records
  /\ LiveLease \subseteq lease
  /\ LiveTakeover \subseteq takeover
BY DEF Live, LiveLease, LiveTakeover

\* What a verified response may be granted under.
LEMMA GrantFacts ==
  ASSUME NEW v, Grantable(v)
  PROVE  v.started = generation /\ v.user # Root /\ Owner[v.scope] \in {SignIn, v.user}
         /\ v.scope = scope
BY DEF Grantable, MayAttach, SameScope

\* Marking a verification as decided changes nothing else about it.
LEMMA DecidedFacts ==
  ASSUME NEW v \in Verifications
  PROVE  \E d \in Verifications :
           /\ Decided(v) = {d}
           /\ d.id = v.id /\ d.scope = v.scope /\ d.epoch = v.epoch /\ d.started = v.started
<1> DEFINE d == [v EXCEPT !.decided = TRUE]
<1>1. d \in Verifications /\ d.id = v.id /\ d.scope = v.scope /\ d.epoch = v.epoch
      /\ d.started = v.started
  BY DEF Verifications
<1>2. Decided(v) = {d}
  BY DEF Decided
<1> QED
  BY <1>1, <1>2

\* Activation changes nothing else about a lease.
LEMMA ActivatedFacts ==
  ASSUME NEW l \in Leases
  PROVE  /\ [l EXCEPT !.active = TRUE] \in Leases
         /\ [l EXCEPT !.active = TRUE].id = l.id
         /\ [l EXCEPT !.active = TRUE].account = l.account
         /\ [l EXCEPT !.active = TRUE].scope = l.scope
         /\ [l EXCEPT !.active = TRUE].epoch = l.epoch
BY DEF Leases

\* Every step preserves the invariant.
LEMMA InvStep == AuthInv /\ [AuthNext]_authVars => AuthInv'
<1> SUFFICES ASSUME AuthInv, [AuthNext]_authVars PROVE AuthInv'
  OBVIOUS
<1> USE PruneShrinks
<1> USE DEF AuthInv, AuthTypeOK, AtMostOne, Identified, RevocationIsFinal, AdmittedAccounts,
            ChallengeConsumed, ScopesKnown, environment, Challenges, Verifications,
            SetupTokens, Leases
<1>1. CASE Tick
  BY <1>1 DEF Tick
<1>2. CASE ChangeScope
  BY <1>2 DEF ChangeScope
<1>3. CASE RevokeAll
  BY <1>3 DEF RevokeAll
<1>4. CASE Refused
  BY <1>4 DEF Refused
<1>5. ASSUME NEW peer \in Peers, NEW user \in Accounts, StartForPeer(peer, user) PROVE AuthInv'
  BY <1>5 DEF StartForPeer
<1>6. ASSUME NEW challenge \in pending, RespondBegin(challenge) PROVE AuthInv'
  <2>1. CASE verify # {}
    BY <1>6, <2>1 DEF RespondBegin
  <2>2. CASE verify = {}
    <3> DEFINE v == [id |-> challenge.id, peer |-> challenge.peer, user |-> challenge.user,
                     scope |-> challenge.scope, epoch |-> challenge.epoch,
                     started |-> generation, decided |-> FALSE]
    <3>1. verify' = {v} /\ v \in Verifications
      BY <1>6, <2>2 DEF RespondBegin
    <3>2. /\ v.id = challenge.id /\ v.scope = challenge.scope
          /\ v.epoch = generation /\ v.started = generation
      OBVIOUS
    <3> HIDE DEF v
    <3> QED
      BY <1>6, <3>1, <3>2 DEF RespondBegin
  <2> QED
    BY <2>1, <2>2
<1>7. ASSUME NEW v \in verify, RespondGrant(v) PROVE AuthInv'
  <2>1. PICK d \in Verifications :
          /\ Decided(v) = {d}
          /\ d.id = v.id /\ d.scope = v.scope /\ d.epoch = v.epoch /\ d.started = v.started
    BY DecidedFacts
  <2>2. PICK t \in Tokens \ used :
          /\ tokens' = (Live(tokens) \ Superseded(v)) \cup
                       {[id |-> t, peer |-> v.peer, account |-> v.user, scope |-> v.scope,
                         expires |-> now + TokenLife, epoch |-> v.epoch]}
          /\ used' = used \cup {t}
    BY <1>7 DEF RespondGrant
  <2>3. v.epoch = generation /\ v.user # Root /\ Owner[v.scope] \in {SignIn, v.user}
    BY <1>7, GrantFacts DEF RespondGrant
  <2>4. /\ pending' = Live(pending) /\ lease' = LiveLease /\ takeover' = LiveTakeover
        /\ verify' = {d}
        /\ UNCHANGED <<environment, takeoverDeadline, generation>>
    BY <1>7, <2>1 DEF RespondGrant
  <2>5. AuthTypeOK'
    BY <2>1, <2>2, <2>4
  <2>6. AtMostOne' /\ Identified'
    BY <2>2, <2>4
  <2>7. RevocationIsFinal' /\ AdmittedAccounts'
    BY <2>1, <2>2, <2>3, <2>4
  <2>8. ChallengeConsumed' /\ ScopesKnown'
    BY <2>1, <2>2, <2>4
  <2> QED
    BY <2>5, <2>6, <2>7, <2>8
<1>8. ASSUME NEW v \in verify, RespondRefuse(v) PROVE AuthInv'
  <2>1. PICK d \in Verifications :
          /\ Decided(v) = {d}
          /\ d.id = v.id /\ d.scope = v.scope /\ d.epoch = v.epoch /\ d.started = v.started
    BY DecidedFacts
  <2> QED
    BY <1>8, <2>1 DEF RespondRefuse
<1>9. ASSUME NEW v \in verify, RespondEnd(v) PROVE AuthInv'
  BY <1>9 DEF RespondEnd
<1>10. ASSUME NEW t \in Tokens, RevokeToken(t) PROVE AuthInv'
  BY <1>10 DEF RevokeToken
<1>11. ASSUME NEW t \in Tokens, ActivateStreamLease(t) PROVE AuthInv'
  <2>1. \A m \in lease' : m \in Leases /\ \E l \in lease :
          m.id = l.id /\ m.account = l.account /\ m.scope = l.scope /\ m.epoch = l.epoch
    BY <1>11, ActivatedFacts DEF ActivateStreamLease
  <2>2. ASSUME NEW l \in lease', NEW m \in lease' PROVE l = m
    <3>1. PICK a \in LiveLease : l = [a EXCEPT !.active = TRUE]
      BY <1>11 DEF ActivateStreamLease
    <3>2. PICK b \in LiveLease : m = [b EXCEPT !.active = TRUE]
      BY <1>11 DEF ActivateStreamLease
    <3>3. a = b
      OBVIOUS
    <3> QED
      BY <3>1, <3>2, <3>3
  <2>3. /\ pending' = Live(pending) /\ tokens' = Live(tokens) /\ takeover' = LiveTakeover
        /\ UNCHANGED <<environment, takeoverDeadline, generation, verify, used>>
    BY <1>11 DEF ActivateStreamLease
  <2> QED
    BY <2>1, <2>2, <2>3
<1>12. ASSUME NEW t \in Tokens, EndStreamLease(t) PROVE AuthInv'
  BY <1>12 DEF EndStreamLease
<1>13. ASSUME NEW t \in Tokens, NEW peer \in Peers, ClaimToken(t, peer) PROVE AuthInv'
  BY <1>13 DEF ClaimToken, Authorized
<1>14. ASSUME NEW t \in Tokens, NEW peer \in Peers, NEW held \in Tokens,
              ReserveTakeoverToken(t, peer, held) PROVE AuthInv'
  BY <1>14 DEF ReserveTakeoverToken, Authorized
<1>15. CASE UNCHANGED authVars
  BY <1>15 DEF authVars
<1> QED
  BY <1>1, <1>2, <1>3, <1>4, <1>5, <1>6, <1>7, <1>8, <1>9, <1>10, <1>11, <1>12, <1>13, <1>14,
     <1>15
  DEF AuthNext, RespondFinish

\* While a takeover is reserved only a claim, a revocation or the end of its own
\* validity removes its setup token.
LEMMA ReservationStep ==
  ASSUME AuthInv, [AuthNext]_authVars,
         NEW t \in takeover, NEW r \in tokens, r.id = t, r \notin tokens'
  PROVE  \/ \E l \in lease' : l.id = t
         \/ RevokeToken(t) \/ RevokeAll
         \/ now >= r.expires \/ now >= takeoverDeadline \/ scope # r.scope
<1> SUFFICES ASSUME now < r.expires, now < takeoverDeadline, scope = r.scope,
                    ~RevokeToken(t), ~RevokeAll
             PROVE  \E l \in lease' : l.id = t
  BY DEF AuthInv, AuthTypeOK, SetupTokens
<1>1. r \in Live(tokens)
  BY DEF AuthInv, AuthTypeOK, SetupTokens, Live, SameScope
<1>2. t \in LiveTakeover
  BY <1>1 DEF LiveTakeover
<1>3. tokens' # Live(tokens) /\ tokens' # tokens
  BY <1>1
<1>4. ASSUME NEW v \in verify, RespondGrant(v) PROVE FALSE
  <2>1. r \notin Superseded(v)
    BY <1>2 DEF Superseded
  <2> QED
    BY <1>1, <1>4, <2>1 DEF RespondGrant
<1>5. ASSUME NEW u \in Tokens, RevokeToken(u) PROVE FALSE
  <2>1. u # t
    BY <1>5
  <2> QED
    BY <1>5, <2>1 DEF RevokeToken
<1>6. ASSUME NEW u \in Tokens, NEW peer \in Peers, ClaimToken(u, peer)
      PROVE \E l \in lease' : l.id = t
  <2>1. PICK s \in Authorized(u, peer) :
          /\ lease' = {[id |-> u, peer |-> peer, account |-> s.account, scope |-> s.scope,
                        activateBefore |-> now + LeaseLife, active |-> FALSE,
                        epoch |-> s.epoch]}
          /\ tokens' = Live(tokens) \ {s}
    BY <1>6 DEF ClaimToken
  <2>2. s = r /\ s.id = u
    BY <1>1, <2>1 DEF Authorized
  <2> QED
    BY <2>1, <2>2
<1> QED
  BY <1>3, <1>4, <1>5, <1>6
  DEF AuthNext, RespondFinish, Tick, ChangeScope, Refused, StartForPeer, RespondBegin, RespondRefuse,
      RespondEnd, ActivateStreamLease, EndStreamLease, ReserveTakeoverToken, authVars

\* The invariant holds in every reachable state.
THEOREM Invariance == AuthSpec => []AuthInv
<1>1. AuthInit => AuthInv
  BY DEF AuthInit, AuthInv, AuthTypeOK, AtMostOne, Identified, RevocationIsFinal, AdmittedAccounts,
         ChallengeConsumed, ScopesKnown
<1> QED
  BY <1>1, InvStep, PTL DEF AuthSpec

\* A takeover reservation protects its setup token from every other login.
THEOREM Reservation == AuthSpec => ReservationHolds
<1>1. AuthInv /\ [AuthNext]_authVars =>
        [\A t \in takeover, r \in tokens :
           r.id = t /\ r \notin tokens' =>
             \/ \E l \in lease' : l.id = t
             \/ RevokeToken(t) \/ RevokeAll
             \/ now >= r.expires \/ now >= takeoverDeadline \/ scope # r.scope]_authVars
  BY ReservationStep
<1> QED
  BY <1>1, Invariance, PTL DEF AuthSpec, ReservationHolds
-----------------------------------------------------------------------------
(* The limits of the two tables.                                           *)

\* A table that can be counted and has at most n records.
Bounded(records, n) == IsFiniteSet(records) /\ Cardinality(records) <= n

\* What the limits need: the tables are finite, so that removing shrinks them.
LimitsInv == Bounded(pending, MaximumPendingChallenges) /\ Bounded(tokens, MaximumSetupTokens)

\* Whatever forgets records, prune above all, keeps to a limit.
LEMMA FewerRecords ==
  ASSUME NEW n \in Nat, NEW records, Bounded(records, n), NEW fewer \in SUBSET records
  PROVE  Bounded(fewer, n)
<1>1. /\ IsFiniteSet(fewer) /\ Cardinality(fewer) <= Cardinality(records)
  BY FS_Subset DEF Bounded
<1>2. Cardinality(fewer) \in Nat /\ Cardinality(records) \in Nat
  BY <1>1, FS_CardinalityType DEF Bounded
<1> QED
  BY <1>1, <1>2 DEF Bounded

\* One record more is within the limit when there was room for it.
LEMMA OneMoreRecord ==
  ASSUME NEW n \in Nat, NEW records, NEW r, IsFiniteSet(records), Cardinality(records) < n
  PROVE  Bounded(records \cup {r}, n)
<1>1. Cardinality(records) \in Nat
  BY FS_CardinalityType
<1>2. /\ IsFiniteSet(records \cup {r})
      /\ Cardinality(records \cup {r}) \in {Cardinality(records), Cardinality(records) + 1}
  BY FS_AddElement
<1> QED
  BY <1>1, <1>2 DEF Bounded

\* The test of Grantable counts what supersession leaves.
LEMMA GrantedFits ==
  ASSUME NEW v, LimitsInv, Grantable(v), NEW r
  PROVE  Bounded((Live(tokens) \ Superseded(v)) \cup {r}, MaximumSetupTokens)
<1>1. IsFiniteSet(Live(tokens))
  BY PruneShrinks, FewerRecords DEF LimitsInv, Bounded
<1>2. Live(tokens) \cap Superseded(v) = Superseded(v)
  BY DEF Superseded
<1>3. /\ IsFiniteSet(Live(tokens) \ Superseded(v))
      /\ Cardinality(Live(tokens) \ Superseded(v))
           = Cardinality(Live(tokens)) - Cardinality(Superseded(v))
  BY <1>1, <1>2, FS_Difference
<1>4. Cardinality(Live(tokens) \ Superseded(v)) < MaximumSetupTokens
  BY <1>3 DEF Grantable
<1> QED
  BY <1>3, <1>4, OneMoreRecord

\* Every step keeps both tables within their limits.
LEMMA LimitsStep == LimitsInv /\ [AuthNext]_authVars => LimitsInv'
<1> SUFFICES ASSUME LimitsInv, [AuthNext]_authVars PROVE LimitsInv'
  OBVIOUS
<1>1. /\ \A fewer \in SUBSET pending : Bounded(fewer, MaximumPendingChallenges)
      /\ \A fewer \in SUBSET tokens : Bounded(fewer, MaximumSetupTokens)
  BY FewerRecords DEF LimitsInv
<1>2. CASE pending' \subseteq pending /\ tokens' \subseteq tokens
  BY <1>1, <1>2 DEF LimitsInv, Bounded
<1>3. ASSUME NEW peer \in Peers, NEW user \in Accounts, StartForPeer(peer, user)
      PROVE  LimitsInv'
  <2>1. PICK r : pending' = Live(pending) \cup {r}
    BY <1>3 DEF StartForPeer
  <2>2. Bounded(pending', MaximumPendingChallenges)
    <3>1. IsFiniteSet(Live(pending))
      BY <1>1, PruneShrinks DEF Bounded
    <3> QED
      BY <1>3, <2>1, <3>1, OneMoreRecord DEF StartForPeer
  <2>3. Bounded(tokens', MaximumSetupTokens)
    BY <1>1, <1>3, PruneShrinks DEF StartForPeer
  <2> QED
    BY <2>2, <2>3 DEF LimitsInv, Bounded
<1>4. ASSUME NEW v \in verify, RespondGrant(v) PROVE LimitsInv'
  <2>1. PICK r : tokens' = (Live(tokens) \ Superseded(v)) \cup {r}
    BY <1>4 DEF RespondGrant
  <2>2. Bounded(tokens', MaximumSetupTokens)
    BY <1>4, <2>1, GrantedFits DEF RespondGrant
  <2>3. Bounded(pending', MaximumPendingChallenges)
    BY <1>1, <1>4, PruneShrinks DEF RespondGrant
  <2> QED
    BY <2>2, <2>3 DEF LimitsInv, Bounded
<1> QED
  BY <1>2, <1>3, <1>4, PruneShrinks
  DEF AuthNext, RespondFinish, Tick, ChangeScope, RevokeAll, Refused, RespondBegin, RespondRefuse,
      RespondEnd, RevokeToken, ClaimToken, ActivateStreamLease, EndStreamLease,
      ReserveTakeoverToken, authVars

\* Neither table ever exceeds its limit: a login that supersedes older tokens of its own
\* makes the room it is counted against.
THEOREM Limits == AuthSpec => []WithinLimits
<1>1. AuthInit => LimitsInv
  BY FS_EmptySet DEF AuthInit, LimitsInv, Bounded
<1>2. LimitsInv => WithinLimits
  BY DEF LimitsInv, Bounded, WithinLimits
<1> QED
  BY <1>1, <1>2, LimitsStep, PTL DEF AuthSpec
=============================================================================
