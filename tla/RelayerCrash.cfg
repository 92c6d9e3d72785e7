\* A payout, a deposit and a risk tick, a crash and a fault; the engine's error for a
\* pending anchor reaches the relayer, which then recovers that anchor.
SPECIFICATION Spec
CONSTANTS
  d1 = d1
  e1 = e1
  e2 = e2
  NoAction = NoAction
  Directs = {d1}
  Events = {e1, e2}
  Kind <- MixedKind
  Refusable = {}
  Slow = {}
  WaitIsReported = TRUE
  BlockRange = 2
  MaxBlock = 2
  MaxCrashes = 1
  MaxFaults = 1
  MaxRetries = 0
CHECK_DEADLOCK FALSE
INVARIANT TypeOK
INVARIANT LedgerAgreement
INVARIANT ConfirmedIsDone
INVARIANT NoEventLost
INVARIANT OneJobPerEvent
INVARIANT NoJobStranded
