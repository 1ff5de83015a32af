SPECIFICATION DevSpec
CONSTANTS
  waiter = waiter
  setter = setter
  other = other
  manager = manager
  stranger = stranger
  NoFile = NoFile
  Threads <- AllThreads
  Waiters <- OneWaiter
  File <- FileOf
  TypeCount = 3
INVARIANTS
  PendingLocked
  HandedOver
  ClosedClean
