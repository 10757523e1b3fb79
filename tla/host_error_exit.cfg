CONSTANTS
  Conns = {c1}
  Daemon = Daemon
  UserModes = {u1}
  Remote = Remote
  Nil = Nil
  Torn = Torn
  MaxSessions = 1
  MaxBoots = 0
SPECIFICATION Spec
INVARIANTS RestoredAfterErrors
CHECK_DEADLOCK FALSE
