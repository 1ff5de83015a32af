------------------------------ MODULE MCAlarm -------------------------------
(***************************************************************************)
(* Alarms for TLC: two of one wakeup queue beside one of the other.        *)
(***************************************************************************)
EXTENDS Alarm, TLC

CONSTANTS a1, a2, a3

WakeupAlarms == {a1, a2, a3}
WakeupType ==
  [a \in WakeupAlarms |->
     IF a = a1 THEN RTC_WAKEUP ELSE ELAPSED_REALTIME_WAKEUP]

FewTimes == {1, 3}

SameQueue == Permutations({a2, a3})
=============================================================================
