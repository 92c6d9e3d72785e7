\* Only checkpoints, with lost responses, expiry and one crash.
SPECIFICATION FairSpec
CONSTANTS
  d = d
  w = w
  b = b
  m = m
  p = p
  rd = rd
  rw = rw
  rb = rb
  rb2 = rb2
  rm = rm
  rp = rp
  h1 = h1
  c1 = c1
  Free = Free
  Ops <- CheckpointOps
  Kind <- CheckpointKind
  Requests <- CheckpointRequests
  Op <- CheckpointOp
  Instructions <- CheckpointInstructions
  Recoveries = {h1}
  Confirmations = {c1}
  SlowHandlers <- AllHandlers
  MaxCrashes = 1
  MaxPauses = 0
PROPERTY PendingAnchorClears
