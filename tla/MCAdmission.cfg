\* Two application threads; one peer (a relay) shared by two accounts; no symmetry
\* (temporal properties).
SPECIFICATION MCSpec
CONSTANTS
  Callers = {t1, t2}
  alice = alice bob = bob root = root login = login desktop = desktop
  Peers = {p1}
  Accounts = {alice, bob}
  Root = root
  Scopes = {login, desktop}
  Owner <- MCOwner
  SignIn = SignIn
  Unavailable = Unavailable
  Conversations = {c1, c2}
  Tokens = {k1, k2}
  MaximumPendingChallenges = 1
  MaximumSetupTokens = 1
  ChallengeLife = 1
  TokenLife = 1
  LeaseLife = 1
  TakeoverLife = 1
  MaxTime = 1
  MaxRevocations = 1
INVARIANT WithinLimits
PROPERTY StopCompletes
PROPERTY WaitersWake
PROPERTY DecisionsTakeEffect
PROPERTY VerificationEnds
