\* Two clients of one account, two challenges, three commands, one restart.
SPECIFICATION Spec
CONSTANTS
  a1 = a1
  a2 = a2
  c1 = c1
  c2 = c2
  mandate = mandate
  cancel = cancel
  query = query
  Accounts = {a1, a2}
  Clients = {c1, c2}
  Owner <- SameOwner
  Commands = {query, mandate, cancel}
  Allowed <- TwoRoutes
  ChallengeLife = 2
  SessionLife = 2
  MaxTries = 2
  MaxTime = 3
  MaxChallenges = 2
  MaxRequests = 1
  MaxRestarts = 1
CHECK_DEADLOCK FALSE
INVARIANT SignInInvariant
INVARIANT JobsAreAuthorized
