CONSTANTS
  Names <- KeyNames
  Texts <- ShortTexts
  Viewports <- Phones
  Moves <- SomeMoves
  EncWidth = 64
  IntMax = 1000
  MaxMessages = 4
  Unknown = Unknown
SPECIFICATION Spec
INVARIANTS TypeOK KeysSettle AsMeant
CHECK_DEADLOCK FALSE
