SPECIFICATION AlarmSpec
CONSTANTS
  a1 = a1
  a2 = a2
  a3 = a3
  Alarms <- WakeupAlarms
  Type <- WakeupType
  Times <- FewTimes
  MaxTime = 3
  SettimeFails = FALSE
SYMMETRY SameQueue
CHECK_DEADLOCK FALSE
INVARIANTS
  TimerArmed
  RtcArmed
  ElapsedKept
