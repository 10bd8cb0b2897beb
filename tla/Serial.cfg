SPECIFICATION FairSpec
CONSTANTS
  Chars <- TwoChars
  CAPACITY = 2
  PACKET = 2
  MAX_TEXT = 5
INVARIANTS SerialInv ConnectedToken
PROPERTIES GivesUpOnlyWhenFull LineSpec
CHECK_DEADLOCK FALSE
