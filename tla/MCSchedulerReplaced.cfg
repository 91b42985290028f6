\* An image replaced by another while it soaks.
SPECIFICATION Spec
CONSTANTS
  Images = {1, 2, 3}
  Soaks = {3}
  Interval = 2
  Jitter = 1
  None = None
  Budgets <- PublishOnly
INVARIANT
  ReplacedImageSoaks
CHECK_DEADLOCK FALSE
