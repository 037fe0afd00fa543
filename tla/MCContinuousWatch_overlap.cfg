SPECIFICATION Spec
CHECK_DEADLOCK FALSE
CONSTANTS
  NoOutput = none
  NoWatch = noWatch
  Never = never
  MissionBound = TRUE
  Output = {a, b}
  Execution = {x1, x2}
  Interval = 1
  Patch <- OffOnOrQuiet
  Workers = 2
  MaxTime = 1
  MaxEdits = 2
  MaxDeletes = 1
  MaxFaults = 1
SYMMETRY ExecutionSymmetry
INVARIANTS
  ReviewsBacked
  ChangesReported
  CompletedSlotReported
  ChangesExact
  RowSumsUpRuns
PROPERTIES
  OnlyUsersConfigure
  SlotSettledOnce
  NoSlotSkipped
