SPECIFICATION AshmemSpec
CONSTANTS
  long = long
  short = short
  Areas = {long, short}
  Sizes <- LongAndShort
  AddrPages = 4
  SIZE_MAX = 15
  Ranges = {r1, r2, r3}
  MaxEmpty = 1
  NoMemory = FALSE
SYMMETRY SlabSymmetry
CHECK_DEADLOCK FALSE
INVARIANTS
  AshmemTypeOK
  ListsExact
  OnRecord
PROPERTIES
  KeepsPages
