SPECIFICATION RemoteSpec
CONSTANTS
  Local = local
  Remotes = {r1, r2}
  Hashes = {a}
  MaxAsks = 2
  MaxChanges = 2
PROPERTY RemoteViewReadOnly
CHECK_DEADLOCK FALSE
