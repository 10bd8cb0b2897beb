SPECIFICATION FairMscSpec
CONSTANTS
  MaxObjects = 2
  NUMMSGS = 4
  MaxLBA = 0
  MaxBlocks = 1
  MaxMoves = 1
  Ops <- ControlOps
  FollowLost = FALSE
PROPERTIES Answered
CHECK_DEADLOCK FALSE
