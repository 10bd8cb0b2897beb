SPECIFICATION MscSpec
CONSTANTS
  MaxObjects = 2
  NUMMSGS = 4
  MaxLBA = 0
  MaxBlocks = 1
  MaxMoves = 1
  Ops <- TransferOps
  FollowLost = TRUE
INVARIANTS NoOverflow
PROPERTIES NotObeyedTwice
CHECK_DEADLOCK FALSE
