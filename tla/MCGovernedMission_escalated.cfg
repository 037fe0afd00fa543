\* Does an escalated mission wait for a review?
SPECIFICATION Spec
CONSTANTS
  c1 = c1  c2 = c2
  memoryGraph = memoryGraph  vyuha = vyuha
  None = None
  Call = {c1, c2}
  Signal <- QuietOrOffensive
  Readings <- SureOrUnsure
  Registry <- InRegistryOrder
  Persisting = {memoryGraph}
  Analysis <- HarmlessOrDenied
SYMMETRY Interchangeable
INVARIANTS
  EscalationWaits
CHECK_DEADLOCK FALSE
