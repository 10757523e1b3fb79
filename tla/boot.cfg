CONSTANTS
  Nil = Nil
  Torn = Torn
  MaxRuns = 2
  MaxTroubles = 2
SPECIFICATION FairSpec
INVARIANTS TypeOK PinKept IdKept IdAgrees
PROPERTY ListensUnlessHeld
CHECK_DEADLOCK FALSE
