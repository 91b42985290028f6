\* One manual update or dry run while an image soaks.
SPECIFICATION FairSpec
CONSTANTS
  Images = {1, 2}
  Soaks = {3}
  Interval = 2
  Jitter = 1
  None = None
  Budgets <- ManualOnly
PROPERTY
  DroppedOnlyIfApplied
CHECK_DEADLOCK FALSE
