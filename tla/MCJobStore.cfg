\* Two stacks, two jobs, a store that keeps one: eviction, a busy target, a waiting
\* request and a scheduler tick racing the shutdown all happen.
SPECIFICATION FairSpec
CONSTANTS
  Targets = {t1, t2}
  Jobs = {j1, j2}
  None = None
  Handlers = {h1}
  Tickers = {s1}
  Outcomes <- MCOutcomes
  History = 1
  MaxSteps = 1
INVARIANTS
  TypeOK
  AnswerIsFinal
  NoStepOutlivesJob
  DrainWaitsForRequests
PROPERTIES
  ImplementsExclusion
  Progress
CHECK_DEADLOCK FALSE
