SPECIFICATION LoggerSpec
CONSTANTS
  Size = 8
  Lens <- ShortLens
  Writers = {w1}
  Readers = {r1}
  NoReader = NoReader
  MaxWrites = 6
  Faults = TRUE
CHECK_DEADLOCK FALSE
INVARIANTS
  WholeEntries
  NewestKept
PROPERTIES
  ReadInOrder
  BlockedReaderWoken
