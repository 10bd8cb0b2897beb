SPECIFICATION Spec
CONSTANTS
  tca = tca
  joy = joy
  DEPTH = 2
INVARIANTS SessionInv ArmedPinIsSafe SessionIsFresh EventEndsSleep
PROPERTIES CalledAsAsked
CHECK_DEADLOCK FALSE
