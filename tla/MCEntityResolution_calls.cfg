SPECIFICATION Spec
CHECK_DEADLOCK FALSE
CONSTANTS
  n1 = n1
  n2 = n2
  i = i
  j = j
  company = company
  country = country
  india = india
  NoValue = noValue
  Plain = plain
  Name <- Names2
  NameSimilarity <- Similar
  EntityType = {company}
  Identifier = {i, j}
  StableKey = {country}
  Value = {india}
  Candidate <- Candidates
  Policy <- Defaults
  Request <- Requests
  Call = {x1, x2, x3}
  Workers = 2
  MaxFaults = 1
SYMMETRY CallSymmetry
INVARIANTS
  NewMergesUnseen
  SharedIdentifiersExplained
  PutAsideReviewed
