\* A deposit and a payout, no response lost: NoPayoutSkipped is violated.
SPECIFICATION Spec
CONSTANTS
  d = d
  w = w
  b = b
  m = m
  p = p
  rd = rd
  rw = rw
  rb = rb
  rb2 = rb2
  rm = rm
  rp = rp
  h1 = h1
  c1 = c1
  Free = Free
  Ops <- SkippedOps
  Kind <- SkippedKind
  Requests <- SkippedRequests
  Op <- SkippedOp
  Instructions <- SkippedInstructions
  Recoveries = {h1}
  Confirmations = {c1}
  SlowHandlers <- NoHandlers
  MaxCrashes = 0
  MaxPauses = 0
INVARIANT NoPayoutSkipped
