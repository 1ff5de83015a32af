SPECIFICATION Spec
CONSTANTS
  main = main
  unknown = unknown
  user = user
  key = key
  usb = usb
  blank = blank
  fb = fb
  Locks = {main, unknown, key, usb}
  MainLock = main
  UnknownWakeup = unknown
  IdleLocks = {}
  LongMax = 1
  RetryTimeout = 1
  NoEventTimeout = 1
  PowerKeyLock = key
  KeyTimeout = 1
  Handlers = {}
  Level <- MCLevel
  UserLocks = {}
  U64Max = 63
  NsecPerJiffy = 2
  UserTimeouts = {}
  DriverLocks = {key}
  LateLocks = {usb}
  DriverTimeouts = {1}
INVARIANTS
  WakeLockPreventsSuspend
