\* Two services, five starting points, every configuration that changes the control flow.
SPECIFICATION FairSpec
CONSTANTS
  web = web
  db = db
  worker = worker
  a0 = a0
  a1 = a1
  a2 = a2
  d0 = d0
  d1 = d1
  webRef = webRef
  webRef2 = webRef2
  dbRef = dbRef
  v2 = v2
  None = None
  Services = {web, db}
  Images = {a0, a1, d0, d1}
  Refs = {webRef, webRef2, dbRef}
  Tags = {v2}
  RefOf <- MCRefOf
  Needs <- MCNeeds
  RepoOf <- MCRepoOf
  TagOf <- MCTagOf
  Worlds <- MCWorlds
  Confs <- MCConfs
  Orders <- MCOrders
  Window = 1
  Deadline = 2
  Grace = 1
  MaxPrunes = 1
INVARIANTS
  TypeOK
  UntouchedUnlessReported
  StableForTheWindow
  FinishedMeansCurrent
  RolledBackRestores
PROPERTY
  Terminates
CHECK_DEADLOCK FALSE
