CONSTANTS
  Frames = 10
  Size <- SizesMany
  Pieces <- HelloAndLater
  LenBytes = 2
  MaxFrame = 4
  Junk = Junk
SPECIFICATION Spec
INVARIANTS TypeOK WholeFramesInOrder
PROPERTY Channel
CHECK_DEADLOCK FALSE
