SPECIFICATION SoundSpec
CONSTANTS
  mp = mp
  msc = msc
  Clients = {mp, msc}
  Handled = {mp}
  Flusher = flusher
  Prio <- MCPrio
  Sectors = {s1, s2}
  Offsets = {o1, o2}
  Data = {d1, d2}
  Erased = erased
  NoSector = nosector
  Nobody = nobody
  MaxFaults = 1
SYMMETRY MCSymmetry
INVARIANTS CacheHoldsItsSector OnlyDirtySectorDiffers FlushInPlace Inv
PROPERTIES SyncIsDurable BlockDeviceSpec
\* An unhandled exception stops the badge.
CHECK_DEADLOCK FALSE
