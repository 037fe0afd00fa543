SPECIFICATION FairSpec
CONSTANTS
  Run = {r1, r2}
  Limit = 2
  Minute = 4
  Timeout = 2
  MaxRetries = 2
  PauseStep = 1
  PauseMax = 2
INVARIANTS BudgetKept SleepsOnlyWithoutBudget AttemptsCounted AbortObeyed
PROPERTY EveryRunEnds

