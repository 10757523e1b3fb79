CONSTANTS
  Frames = 4
  Size <- SizesFit
  LenBytes = 2
  MaxFrame = 3
  Pieces <- All
  Junk = Junk
SPECIFICATION Spec
INVARIANT DispatchedAsSent
CHECK_DEADLOCK FALSE
