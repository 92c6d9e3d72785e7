\* A borrow, a withdrawal and one pause: WithdrawalsStayAvailable is violated.
SPECIFICATION FairSpec
CONSTANTS
  d = d
  w = w
  b = b
  m = m
  p = p
  rd = rd
  rw = rw
  rb = rb
  rb2 = rb2
  rm = rm
  rp = rp
  h1 = h1
  c1 = c1
  Free = Free
  Ops <- PausedOps
  Kind <- PausedKind
  Requests <- PausedRequests
  Op <- PausedOp
  Instructions <- PausedInstructions
  Recoveries = {h1}
  Confirmations = {c1}
  SlowHandlers <- NoHandlers
  MaxCrashes = 0
  MaxPauses = 1
PROPERTY WithdrawalsStayAvailable
