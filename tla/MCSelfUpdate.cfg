CONSTANTS
  MaxInt = 2
  MaxRank = 5
  Service = service
  Commands = {c1, c2}
  Writers = {service, c1}
  Disabled = {}
  Builds <- MCBuilds
  Releases <- MCReleases
  TTL = 2
  Timeout = 1
  Reset = 2
  MaxTime = 3
SPECIFICATION Spec
INVARIANTS TypeOK CheckedAtIsTruthful RefusalsBounded AdviceIsOrdered
CHECK_DEADLOCK FALSE
