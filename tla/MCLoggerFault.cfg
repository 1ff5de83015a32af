SPECIFICATION LoggerSpec
CONSTANTS
  Size = 8
  Lens <- ShortLens
  Writers = {w1, w2}
  Readers = {r1}
  NoReader = NoReader
  MaxWrites = 4
  Faults = TRUE
CHECK_DEADLOCK FALSE
INVARIANTS
  WholeEntries
