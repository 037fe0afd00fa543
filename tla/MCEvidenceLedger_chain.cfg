\* Three concurrent appends to two missions, with every lensResults a caller can pass.
CONSTANTS
  m1 = m1  m2 = m2  k1 = k1  k2 = k2
  Mission = {m1, m2}
  Call = {c1, c2, c3}
  Lens = {"undefined", "empty", "named"}
  LockKeyOf <- OwnKeys
  HashValue <- Sha256
  NoHash = NoHash
  MaxFaults = 1
SPECIFICATION FairSpec
INVARIANTS
  ChainLinked
  FailuresAreFaults
  OnlyUndefinedReported
  AlterationDetected
PROPERTIES
  AppendEnds
  ImplementsLog
CHECK_DEADLOCK FALSE
