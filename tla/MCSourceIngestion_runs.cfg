SPECIFICATION Spec
CHECK_DEADLOCK FALSE
CONSTANTS
  s1 = s1
  s2 = s2
  s3 = s3
  early = early
  late = late
  other = other
  Source = {s1, s2, s3}
  Report = {early, late, other}
  Scheduled = {s1, s3}
  TitleScore <- Scores
  Same = 100
  Threshold = 78
  NodeLimit = 3
  Published <- Dates
  Patch <- Patches
  Plan <- Plans
  Listing <- Listings
  Batch <- Batches
  Execution = {x1, x2}
  NoItem = noItem
  NoLineage = noLineage
  ClaimLimit = 6
  Workers = 2
  MaxSlot = 1
  MaxEdits = 1
  MaxFaults = 1
SYMMETRY ExecutionSymmetry
INVARIANTS
  ClaimsTraceable
  CopiesShareLineage
  ClaimsAssessed
  CompletedItemFetched
