SPECIFICATION BinderSpec
CONSTANTS
  P = P
  Q = Q
  R = R
  a = a
  b = b
  c = c
  Procs = {P, Q, R}
  Threads = {a, b, c}
  ProcOf <- OneThreadEach
  Txns = {t1, t2, t3, t4}
  NoThread = NoThread
  NoTxn = NoTxn
  OneWays <- NoOneWay
  MaxTodo = 1
  AsyncExit = FALSE
SYMMETRY PeerSymmetry
CHECK_DEADLOCK FALSE
INVARIANTS
  NoBug
  AnsweredOnce
  NobodyOrphaned
