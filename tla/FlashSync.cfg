SPECIFICATION FairSpec
CONSTANTS
  mp = mp
  msc = msc
  Clients = {mp}
  Handled = {mp}
  Flusher = flusher
  Prio <- MCPrio
  Sectors = {s1, s2}
  Offsets = {o1}
  Data = {d1, d2}
  Erased = erased
  NoSector = nosector
  Nobody = nobody
  MaxFaults = 1
INVARIANT NoUnhandledError
PROPERTY SyncReturns
\* An unhandled exception stops the badge.
CHECK_DEADLOCK FALSE
