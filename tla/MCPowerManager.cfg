SPECIFICATION Spec
CONSTANTS
  main = main
  unknown = unknown
  user = user
  key = key
  usb = usb
  blank = blank
  fb = fb
  Locks = {main, unknown, user, key}
  MainLock = main
  UnknownWakeup = unknown
  IdleLocks = {}
  LongMax = 2
  RetryTimeout = 1
  NoEventTimeout = 1
  PowerKeyLock = key
  KeyTimeout = 1
  Handlers = {blank, fb}
  Level <- MCLevel
  UserLocks = {user}
  U64Max = 63
  NsecPerJiffy = 2
  UserTimeouts = {1}
  DriverLocks = {key}
  LateLocks = {}
  DriverTimeouts <- ShortAndPast
INVARIANTS
  SleepOnlyWhenOff
  MainLockHeld
  NoLostRequest
  LevelOrder
  HandlersMatchState
  SleepOnlyUnlocked
  NoLostSuspend
