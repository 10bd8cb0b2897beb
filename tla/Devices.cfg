SPECIFICATION Spec
CONSTANTS
  HalfPeriod = 2
  MaxBytes = 3
  MaxOffset = 2
  MaxPixels = 1
  Colours = {c1, c2}
  Uarts = {u1, u2}
  Networks = {n1, n2}
INVARIANTS DevicesInv MemoryIsOwned PortsAreReleased ConnectsAsAsked
PROPERTIES WholeSoundPlayed CallsReturn
\* A program may crash, or use NULL.
CHECK_DEADLOCK FALSE
