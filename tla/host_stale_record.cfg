CONSTANTS
  Conns = {c1}
  Daemon = Daemon
  UserModes = {u1, u2}
  Remote = Remote
  Nil = Nil
  Torn = Torn
  MaxSessions = 2
  MaxBoots = 0
SPECIFICATION Spec
INVARIANTS RestoresPrevious
CHECK_DEADLOCK FALSE
