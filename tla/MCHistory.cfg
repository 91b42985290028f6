CONSTANTS
  Keep = 2
  MaxBytes = 2
  Records = 8
  Limit = 3
  MaxFaults = 1
  MaxKills = 1
  Queries <- MCQueries
SPECIFICATION Spec
INVARIANTS TypeOK AcknowledgedIsKept ArchivesAreWhole ReadIsNewest
CHECK_DEADLOCK FALSE
