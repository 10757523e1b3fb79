CONSTANTS
  Addrs <- Addresses
  Limit = 2
  Window = 2
  Retain = 4
  MaxTime = 5
  MaxTries = 2
SPECIFICATION Spec
INVARIANTS TypeOK NoFalseRefusal BoundedRate
CHECK_DEADLOCK FALSE
