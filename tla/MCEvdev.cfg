SPECIFICATION EvdevSpec
CONSTANTS
  Clients = {c1, c2}
  Device = Device
  None = None
  ListEnd = ListEnd
  BufferSize = 4
  MaxEvents = 5
SYMMETRY ClientSymmetry
CONSTRAINT OneRing
CHECK_DEADLOCK FALSE
INVARIANTS
  NothingDangles
  GrabExclusive
  UnreadNewest
  LockUntilRead
  ReaderNoticed
  ClosedOnce
