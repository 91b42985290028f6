CONSTANTS
  Paths = {"/srv/web", "/old/web", "/srv/db", "/var/log/h", "/etc/token", "/etc/cert", "/bin/dump"}
  BaseOf <- MCBaseOf
  Shallow = {}
  TooLong = {}
  Names = {"web", "db"}
  MinCheckInterval = 2
  Builtin <- MCBuiltin
  Unset = unset
  Commands = {c1, c2}
  Dirs <- MCDirs
  Inputs = {"docker.io", "ghcr.io", "not a host"}
  Lists <- MCLists
  Keys = {"hub", "ghcr"}
  KeyOf <- MCKeyOf
  Refused = refused
  Stored = stored
  NoFile = nofile
  Edits <- MCEdits
  Worlds <- MCWorlds
  Asks <- MCAsks
  Down = down
  Nothing = nothing
  MaxEvents = 3
SYMMETRY Symmetry
SPECIFICATION Spec
INVARIANTS TypeOK QuietStartIsHonoured
PROPERTY SavedIsKept
CHECK_DEADLOCK FALSE
