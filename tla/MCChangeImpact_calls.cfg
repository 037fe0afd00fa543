\* Three overlapping ingestions of one subject, two decisions and a failing call.
CONSTANTS
  Call = {c1, c2, c3}
  State <- TwoStates
  Time = {1, 2}
  NoState = NoState
  MaxActions = 2
  MaxFaults = 1
SYMMETRY CallSymmetry
SPECIFICATION Spec
INVARIANTS
  FollowUpsRecorded
  MaterialChangeFollowedUp
  ContentionIsMaterial
  AuditExplainsStatus
CHECK_DEADLOCK FALSE
