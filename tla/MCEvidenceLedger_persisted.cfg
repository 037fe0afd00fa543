\* The same appends with the lensResults the callers really pass.
CONSTANTS
  m1 = m1  m2 = m2  k1 = k1  k2 = k2
  Mission = {m1, m2}
  Call = {c1, c2}
  Lens = {"undefined", "named"}
  LockKeyOf <- CollidingKeys
  HashValue <- Sha256
  NoHash = NoHash
  MaxFaults = 0
SPECIFICATION Spec
INVARIANT PersistedChainVerifies
CHECK_DEADLOCK FALSE
