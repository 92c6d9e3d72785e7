\* One move of the workload and no failure: the script sets the vault's signer again.
SPECIFICATION Spec
CONSTANTS
  None = None
  m1 = m1
  m2 = m2
  m3 = m3
  f = f
  Identities <- OneMove
  Foreign = {}
  Attempts = 2
  MaxFaults = 0
CHECK_DEADLOCK FALSE
PROPERTY SignerImmutable
