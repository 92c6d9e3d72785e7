\* The node gives up before the engine; a payout that may be refused, a slow deposit,
\* a crash, a fault and a retry.
SPECIFICATION FairSpec
CONSTANTS
  d1 = d1
  e1 = e1
  e2 = e2
  NoAction = NoAction
  Directs = {d1}
  Events = {e1}
  Kind <- MixedKind
  Refusable = {d1}
  Slow = {e1}
  WaitIsReported = FALSE
  BlockRange = 1
  MaxBlock = 1
  MaxCrashes = 1
  MaxFaults = 1
  MaxRetries = 1
CHECK_DEADLOCK FALSE
PROPERTY EveryRequestEnds
