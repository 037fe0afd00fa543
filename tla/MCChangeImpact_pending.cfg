\* One ingestion after the other: a state that comes back after an analyst
\* decided its review.
CONSTANTS
  Call = {c1, c2, c3}
  State <- TwoStates
  Time = {1, 2, 3}
  NoState = NoState
  MaxActions = 1
  MaxFaults = 0
SPECIFICATION SpecInTurn
PROPERTY MaterialChangeIsPending
CHECK_DEADLOCK FALSE
