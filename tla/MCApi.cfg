CONSTANTS
  proxy = proxy
  a = a
  b = b
  stranger = stranger
  bad = bad
  Handlers = {h1, h2}
  Requests <- MCRequests
  NoRequest = none
  Addresses = {proxy, a, b, stranger}
  Unparsable = bad
  TrustedProxies = {proxy}
  AllowFrom = {proxy, a, b}
  TokenSet = TRUE
  SecretSet = TRUE
  MaxFailures = 2
  MaxKeys = 2
  Window = 1
  MaxTime = 4
SPECIFICATION Spec
INVARIANTS TypeOK CountIsRight
PROPERTIES BudgetKept
SYMMETRY SameHandlers
CHECK_DEADLOCK FALSE
