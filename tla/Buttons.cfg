SPECIFICATION FairSpec
CONSTANTS
  Buttons <- TwoButtons
  b1 = b1
  b2 = b2
  PRESS_TICKS = 2
  RELEASE_TICKS = 3
  PERIOD = 5
  WRAP = 16
INVARIANTS EveryChangeTold ButtonsInv
PROPERTIES ToldOnce Debounced ChangeIsRead
CHECK_DEADLOCK FALSE
