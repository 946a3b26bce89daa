SPECIFICATION AuthSpec
CONSTANTS
  p1 = p1 p2 = p2 alice = alice bob = bob root = root login = login desktop = desktop
  c1 = c1 c2 = c2 t1 = t1 t2 = t2 t3 = t3
  Peers = {p1, p2}
  Accounts = {alice, root}
  Root = root
  Scopes = {login, desktop}
  Owner <- MCOwner
  SignIn = SignIn
  Unavailable = Unavailable
  Conversations = {c1, c2}
  Tokens = {t1, t2, t3}
  MaximumPendingChallenges = 2
  MaximumSetupTokens = 2
  ChallengeLife = 1
  TokenLife = 2
  LeaseLife = 1
  TakeoverLife = 1
  MaxTime = 2
  MaxRevocations = 1
SYMMETRY MCSymmetry
INVARIANT AuthInv
PROPERTY ReservationHolds
