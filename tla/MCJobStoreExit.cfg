\* The same instance, asked whether a finished job is always recorded at a clean exit.
SPECIFICATION Spec
CONSTANTS
  Targets = {t1, t2}
  Jobs = {j1, j2}
  None = None
  Handlers = {h1}
  Tickers = {}
  Outcomes <- MCOutcomes
  History = 1
  MaxSteps = 1
INVARIANT
  FinishedIsRecordedAtExit
CHECK_DEADLOCK FALSE
