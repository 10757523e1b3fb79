CONSTANTS
  Addrs <- Addresses
  Limit = 2
  Window = 2
  Retain = 4
  MaxTime = 5
  MaxTries = 2
SPECIFICATION Spec
INVARIANT LimitPerWindow
CHECK_DEADLOCK FALSE
