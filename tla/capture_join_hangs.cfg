CONSTANTS
  Sessions <- One
  ChanCap = 2
  PipeCap = 2
  MaxTags = 4
  Nil = Nil
SPECIFICATION FairSpec
PROPERTY DropUnblocksReader
CHECK_DEADLOCK FALSE
