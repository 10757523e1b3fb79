CONSTANTS
  Base = 32
  Nals <- SomeNals
  Widths = {1, 2, 4}
  MaxSets = 2
  MaxNals = 2
  Cuts <- SomeCuts
  StartCode = StartCode
  None = None
SPECIFICATION Spec
INVARIANTS TypeOK SetsCurrent UnitExact
PROPERTY WholeTagsServed
CHECK_DEADLOCK FALSE
