SPECIFICATION BinderSpec
CONSTANTS
  P = P
  Q = Q
  R = R
  a = a
  b = b
  c = c
  Procs = {P, Q}
  Threads = {a, b, c}
  ProcOf <- TwoInOne
  Txns = {t1, t2}
  NoThread = NoThread
  NoTxn = NoTxn
  OneWays <- AllKinds
  MaxTodo = 1
  AsyncExit = FALSE
SYMMETRY PoolSymmetry
CHECK_DEADLOCK FALSE
INVARIANTS
  WorkNoticed
  OneWaySerial
