\* Three requests, two stacks, one slot: conflicts on a target, a full agent, lost callers
\* and restarts all happen.
SPECIFICATION FairSpec
CONSTANTS
  r1 = r1
  r2 = r2
  r3 = r3
  t1 = t1
  t2 = t2
  Targets <- MCTargets
  Requests <- MCRequests
  Kind <- MCKind
  Target <- MCTarget
  Outcomes <- MCOutcomes
  MaxConcurrent = 1
  None = None
INVARIANTS
  TypeOK
  NothingLeaks
  AnsweredMeansReleased
  ResultIsWhole
PROPERTIES
  LockReleased
  CallerConcludes
  ImplementsExclusion
CHECK_DEADLOCK FALSE
