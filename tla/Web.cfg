\* Five visits, of two accounts, with any two troubles.
SPECIFICATION FairSpec
CONSTANTS
  None = None
  a1 = a1
  a2 = a2
  o1 = o1
  o2 = o2
  o3 = o3
  o4 = o4
  o5 = o5
  Accounts = {a1, a2}
  Ops = {o1, o2, o3, o4, o5}
  Visits <- MCVisits
  Funds = 1
  MaxTroubles = 2
CHECK_DEADLOCK FALSE
INVARIANT QueueInvariant
INVARIANT SettlementShown
INVARIANT NonceInSync
INVARIANT AcceptedIsPaidOnce
INVARIANT NonceAheadIsFlagged
PROPERTY ReportedBorrowIsOpen
PROPERTY OpsEnd
