\* Two services that share one image reference and run different images of it.
SPECIFICATION Spec
CONSTANTS
  web = web
  db = db
  worker = worker
  a0 = a0
  a1 = a1
  a2 = a2
  d0 = d0
  d1 = d1
  webRef = webRef
  webRef2 = webRef2
  dbRef = dbRef
  v2 = v2
  None = None
  Services = {web, worker}
  Images = {a0, a1, a2}
  Refs = {webRef}
  Tags = {}
  RefOf <- SharedRefOf
  Needs <- SharedNeeds
  RepoOf <- SharedRepoOf
  TagOf <- SharedTagOf
  Worlds <- SharedWorlds
  Confs <- SharedConfs
  Orders <- SharedOrders
  Window = 1
  Deadline = 2
  Grace = 1
  MaxPrunes = 0
INVARIANT
  RolledBackAlwaysRestores
CHECK_DEADLOCK FALSE
