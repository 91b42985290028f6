\* No soak, a soak shorter than the check interval and one longer.
SPECIFICATION FairSpec
CONSTANTS
  Images = {1, 2}
  Soaks = {0, 1, 3}
  Interval = 2
  Jitter = 1
  None = None
  Budgets <- MCBudgets
INVARIANTS
  TypeOK
  SoakObserved
  WakesForTheSoak
  AlertsTellTheTruth
PROPERTY
  Converges
CHECK_DEADLOCK FALSE
