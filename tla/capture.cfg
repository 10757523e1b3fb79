CONSTANTS
  Sessions <- Two
  ChanCap = 2
  PipeCap = 2
  MaxTags = 4
  Nil = Nil
SPECIFICATION MCSpec
INVARIANTS TypeOK KeyframesKept InOrder RecorderOwned StopReleasesAll CleanDirectory
PROPERTY SettlesUnlessStuck
CHECK_DEADLOCK FALSE
