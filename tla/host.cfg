CONSTANTS
  Conns = {c1, c2}
  Daemon = Daemon
  UserModes = {u1}
  Remote = Remote
  Nil = Nil
  Torn = Torn
  MaxSessions = 2
  MaxBoots = 1
SPECIFICATION Spec
CONSTRAINT FewFaults
SYMMETRY Symmetry
INVARIANTS TypeOK ClientsExact StatusFresh SavedBeforeApply SavedIsUsers FileOutlivesCrash RestoredOnLeave RestoredWhenQuiet RestoredOnExit
PROPERTY Lent
CHECK_DEADLOCK FALSE
