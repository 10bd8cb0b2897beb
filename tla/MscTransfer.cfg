SPECIFICATION MscSpec
CONSTANTS
  MaxObjects = 2
  NUMMSGS = 4
  MaxLBA = 1
  MaxBlocks = 2
  MaxMoves = 1
  Ops <- TransferOps
  FollowLost = FALSE
INVARIANTS MscInv TransferIsLent OnlyKnownSilence
PROPERTIES WritesInPlace ReadsInPlace StatusIsTrue
CHECK_DEADLOCK FALSE
