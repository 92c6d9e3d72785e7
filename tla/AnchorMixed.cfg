\* Checkpoints and payouts together, one requested twice; a crash, a pause, lost responses.
SPECIFICATION Spec
CONSTANTS
  d = d
  w = w
  b = b
  m = m
  p = p
  rd = rd
  rw = rw
  rb = rb
  rb2 = rb2
  rm = rm
  rp = rp
  h1 = h1
  c1 = c1
  Free = Free
  Ops <- MixedOps
  Kind <- MixedKind
  Requests <- MixedRequests
  Op <- MixedOp
  Instructions <- MixedInstructions
  Recoveries = {h1}
  Confirmations = {c1}
  SlowHandlers <- MixedSlow
  MaxCrashes = 1
  MaxPauses = 1
INVARIANT TypeOK
INVARIANT AnchorAgreement
INVARIANT SignedIsDurable
INVARIANT AppliedOnce
INVARIANT PaidAtMostOnce
INVARIANT SkippedOnlyIfOvertaken
PROPERTY HistoryOnlyGrows
PROPERTY ImplementsAnchoredLedger
PROPERTY ImplementsExactLedger
