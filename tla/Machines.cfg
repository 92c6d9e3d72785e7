\* Two moves of the workload, two failures, two attempts of the configuration; with and
\* without a machine of another owner and an operator who runs the single scripts.
SPECIFICATION FairSpec
CONSTANTS
  None = None
  m1 = m1
  m2 = m2
  m3 = m3
  f = f
  Identities <- TwoMoves
  Foreign = {f}
  Attempts = 2
  MaxFaults = 2
CHECK_DEADLOCK FALSE
INVARIANT CutoverInvariant
PROPERTY CutoverComplete
PROPERTY SignerNotPaused
PROPERTY ServiceReturns
