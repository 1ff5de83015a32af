-------------------------------- MODULE Alarm --------------------------------
(***************************************************************************)
(* Android alarms (drivers/rtc/alarm.c): five queues of alarms, each with  *)
(* an hrtimer that is set for its first alarm, an elapsed-time clock kept  *)
(* as an offset from wall time, and the RTC alarm that wakes the device    *)
(* for the alarms of the two wakeup queues.                                *)
(*                                                                         *)
(* The device has one CPU and alarm_slock is taken with interrupts off, so *)
(* every section under it is one step, and so is the timer function: the   *)
(* hrtimer interrupt calls it with interrupts off throughout.  A tick is a *)
(* second, the resolution of the RTC.  The RTC runs with wall time         *)
(* (alarm_suspend subtracts their difference).  The only caller,           *)
(* alarm-dev.c, gives alarms equal softexpires and expires.                *)
(***************************************************************************)
EXTENDS Integers, Sequences, SequencesExt

CONSTANTS
  Alarms,        \* every struct alarm
  Type,          \* alarm -> alarm->type
  Times,         \* expiry times and wall times that users give
  MaxTime,       \* bound: seconds since boot
  SettimeFails   \* may do_settimeofday refuse the time

RTC_WAKEUP == 0
RTC == 1
ELAPSED_REALTIME_WAKEUP == 2
ELAPSED_REALTIME == 3
SYSTEMTIME == 4
ELAPSED_REALTIME_WAKEUP_MASK == 4

Queues == RTC_WAKEUP .. SYSTEMTIME
WallQueues == RTC_WAKEUP .. ELAPSED_REALTIME
WakeupQueues == {RTC_WAKEUP, ELAPSED_REALTIME_WAKEUP}
ElapsedQueues == {ELAPSED_REALTIME_WAKEUP, ELAPSED_REALTIME}

ASSUME AlarmAssumption ==
  /\ Type \in [Alarms -> Queues]
  /\ Times \subseteq Nat /\ MaxTime \in Nat
  /\ SettimeFails \in BOOLEAN

VARIABLES
  real,        \* seconds since boot, those asleep included
  mono,        \* CLOCK_MONOTONIC, which stands still while asleep
  wall,        \* CLOCK_REALTIME
  queue,       \* queue -> its alarms, the tree alarms[i].alarms in order
  expires,     \* alarm -> alarm->expires
  timer,       \* queue -> its hrtimer
  delta,       \* alarms[i].delta of the two elapsed-time queues
  stopped,     \* alarms[i].stopped, the same for all wall-clock queues
  stopped_time,
  setting,     \* where alarm_set_rtc is, and the new time
  suspended,   \* the flag of that name
  device,      \* "on", "entering" in alarm_suspend, "suspending" once that
               \* has returned 0, "asleep", "resuming" after an RTC alarm
  since,       \* when alarm_suspend returned 0, 0 if on
  slept,       \* when the device fell asleep, 0 if on
  rtc_alarm,   \* the RTC alarm: enabled, and its time
  lock_until,  \* when alarm_rtc_wake_lock ends, 0 if it has
  lost         \* history: seconds in which alarm_set_rtc had read the time
               \* and not yet set it

alarmVars == <<real, mono, wall, queue, expires, timer, delta, stopped,
               stopped_time, setting, suspended, device, since, slept,
               rtc_alarm, lock_until, lost>>

clockVars == <<real, mono, wall, delta, stopped_time, lost>>
powerVars == <<device, since, slept, rtc_alarm>>

NoAlarm == [enabled |-> FALSE, time |-> 0]
Forever == MaxTime + 100
NotSetting == [at |-> "none", time |-> 0]

Delta(q) == IF q \in ElapsedQueues THEN delta ELSE 0
Clock(q) == IF q = SYSTEMTIME THEN mono ELSE wall
Stopped(q) == stopped /\ q \in WallQueues
LockHeld == real < lock_until

(* alarm_late_init with the RTC at t.                                      *)
alarm_driver_init(t) ==
  /\ real = 0 /\ mono = 0 /\ wall = t
  /\ queue = [q \in Queues |-> << >>]
  /\ expires = [a \in Alarms |-> 0]
  /\ timer = [q \in Queues |-> [on |-> FALSE, expires |-> 0]]
  /\ delta = t
  /\ stopped = FALSE /\ stopped_time = 0
  /\ setting = NotSetting
  /\ suspended = FALSE
  /\ device = "on" /\ since = 0 /\ slept = 0
  /\ rtc_alarm = NoAlarm
  /\ lock_until = 0
  /\ lost = 0

-----------------------------------------------------------------------------
(* update_timer_locked(q, head_removed), for the queues of the set qs, one *)
(* after the other, with que, exps, susp and stop in place of the state.   *)

(* hrtimer_start_expires for the first alarm of a queue.                   *)
Armed(q, que, exps) ==
  [on |-> TRUE, expires |-> Delta(q) + exps[Head(que[q])]]

UpdateTimers(qs, que, exps, susp, stop) ==
  timer' = [q \in Queues |->
    IF q \in qs /\ que[q] # << >> /\ ~ (stop /\ q \in WallQueues)
         /\ ~ (susp /\ q \in WakeupQueues)
      THEN Armed(q, que, exps) ELSE timer[q]]

(* What happens to alarm_rtc_wake_lock, held until `until`: released when  *)
(* the head of a wakeup queue goes, taken for a second when a wakeup queue *)
(* changes under a suspended driver.                                       *)
UpdateLock(q, que, head_removed, until) ==
  IF Stopped(q) \/ q \notin WakeupQueues THEN until
  ELSE IF suspended THEN IF que[q] # << >> THEN real + 1 ELSE until
  ELSE IF head_removed THEN 0 ELSE until

update_timer_locked(q, que, exps, head_removed) ==
  /\ UpdateTimers({q}, que, exps, suspended, stopped)
  /\ lock_until' = UpdateLock(q, que, head_removed, lock_until)

-----------------------------------------------------------------------------
(* Alarms are started, cancelled and expire.                               *)

IsFirst(a) == queue[Type[a]] # << >> /\ Head(queue[Type[a]]) = a

(* rb_erase of an alarm that is in the tree.                               *)
Without(s, a) ==
  IF \E i \in DOMAIN s : s[i] = a
    THEN RemoveAt(s, CHOOSE i \in DOMAIN s : s[i] = a) ELSE s

(* The alarm goes behind those that expire no later.                       *)
alarm_enqueue_locked(a, t) ==
  LET q == Type[a]
      rest == Without(queue[q], a)
      exps == [expires EXCEPT ![a] = t]
  IN
  \E pos \in 1 .. Len(rest) + 1 :
    LET que == [queue EXCEPT ![q] = InsertAt(rest, pos, a)] IN
    /\ \A i \in 1 .. Len(rest) : i < pos <=> expires[rest[i]] <= t
    /\ queue' = que
    /\ expires' = exps
    /\ IF pos = 1 \/ IsFirst(a)
         THEN update_timer_locked(q, que, exps, IsFirst(a))
         ELSE UNCHANGED <<timer, lock_until>>

(* Threads of user space are frozen before drivers are suspended.          *)
alarm_start_range(a, t) ==
  /\ device = "on"
  /\ alarm_enqueue_locked(a, t)
  /\ UNCHANGED <<clockVars, powerVars, stopped, setting, suspended>>

alarm_try_to_cancel(a) ==
  LET q == Type[a]
      que == [queue EXCEPT ![q] = Without(@, a)]
  IN  /\ device = "on"
      /\ a \in Range(queue[q])
      /\ queue' = que
      /\ IF IsFirst(a) THEN update_timer_locked(q, que, expires, TRUE)
                       ELSE UNCHANGED <<timer, lock_until>>
      /\ UNCHANGED <<clockVars, powerVars, expires, stopped, setting,
                     suspended>>

(* The hrtimer of q has run out: the alarms that are due are taken off the *)
(* front of the queue and called.  The timer is off while its function     *)
(* runs, so Armed sets it anew.                                            *)
alarm_timer_triggered(q) ==
  LET now == (IF Stopped(q) THEN stopped_time ELSE Clock(q)) - Delta(q) IN
  \E n \in 0 .. Len(queue[q]) :
    LET que == [queue EXCEPT ![q] = SubSeq(@, n + 1, Len(@))] IN
    /\ device # "asleep"
    /\ timer[q].on /\ timer[q].expires <= Clock(q)
    /\ \A i \in 1 .. n : expires[queue[q][i]] <= now
    /\ n < Len(queue[q]) => expires[queue[q][n + 1]] > now
    /\ queue' = que
    /\ timer' = [timer EXCEPT ![q] =
         IF que[q] # << >> /\ ~ Stopped(q)
              /\ ~ (suspended /\ q \in WakeupQueues)
           THEN Armed(q, que, expires) ELSE [@ EXCEPT !.on = FALSE]]
    /\ lock_until' = UpdateLock(q, que, TRUE, lock_until)
    /\ UNCHANGED <<clockVars, powerVars, expires, stopped, setting,
                   suspended>>

-----------------------------------------------------------------------------
(* alarm_set_rtc: the timers are stopped and the offset is moved, the time *)
(* is set, the timers are set again, the lock is released.                 *)

(* Mutant: the offset does not follow the wall time. *)
BeginKeepsDelta(t) ==
  /\ device = "on" /\ setting.at = "none"
  /\ setting' = [at |-> "settime", time |-> t]
  /\ lock_until' = Forever
  /\ timer' = [q \in Queues |->
       IF q \in WallQueues THEN [timer[q] EXCEPT !.on = FALSE] ELSE timer[q]]
  /\ stopped' = TRUE
  /\ stopped_time' = wall
  /\ UNCHANGED <<real, mono, wall, delta, lost, powerVars, queue, expires,
                 suspended>>

BeginSetRtc(t) ==
  /\ device = "on" /\ setting.at = "none"
  /\ setting' = [at |-> "settime", time |-> t]
  /\ lock_until' = Forever
  /\ timer' = [q \in Queues |->
       IF q \in WallQueues THEN [timer[q] EXCEPT !.on = FALSE] ELSE timer[q]]
  /\ stopped' = TRUE
  /\ stopped_time' = wall
  /\ delta' = delta - (wall - t)
  /\ UNCHANGED <<real, mono, wall, lost, powerVars, queue, expires,
                 suspended>>

do_settimeofday ==
  /\ setting.at = "settime"
  /\ wall' = setting.time \/ (SettimeFails /\ wall' = wall)
  /\ setting' = [setting EXCEPT !.at = "restart"]
  /\ UNCHANGED <<real, mono, delta, stopped_time, lost, powerVars, queue,
                 expires, timer, stopped, suspended, lock_until>>

RestartTimers ==
  /\ setting.at = "restart"
  /\ stopped' = FALSE
  /\ UpdateTimers(WallQueues, queue, expires, suspended, FALSE)
  /\ setting' = [setting EXCEPT !.at = "unlock"]
  /\ UNCHANGED <<clockVars, powerVars, queue, expires, suspended, lock_until>>

EndSetRtc ==
  /\ setting.at = "unlock"
  /\ setting' = NotSetting
  /\ lock_until' = 0
  /\ UNCHANGED <<clockVars, powerVars, queue, expires, timer, stopped,
                 suspended>>

alarm_get_elapsed_realtime == (IF stopped THEN stopped_time ELSE wall) - delta

-----------------------------------------------------------------------------
(* Suspend and resume.                                                     *)

(* hrtimer_cancel of the two wakeup queues, by the index and by the mask.  *)
Cancelled ==
  [q \in Queues |->
     IF q \in {RTC_WAKEUP, ELAPSED_REALTIME_WAKEUP_MASK}
       THEN [timer[q] EXCEPT !.on = FALSE] ELSE timer[q]]

(* Mutant: the queue of elapsed time is looked at only without the other. *)
RtcQueueFirst ==
  IF queue[RTC_WAKEUP] # << >> THEN {RTC_WAKEUP}
  ELSE {q \in WakeupQueues : queue[q] # << >>}

(* The wakeup queue whose timer is set for the earliest time.              *)
WakeupQueue ==
  {q \in WakeupQueues :
     /\ queue[q] # << >>
     /\ \A p \in WakeupQueues :
          queue[p] # << >> => timer[q].expires <= timer[p].expires}

SetSuspended ==
  /\ device = "on" /\ setting.at = "none"
  /\ device' = "entering"
  /\ suspended' = TRUE
  /\ UNCHANGED <<clockVars, since, slept, rtc_alarm, queue, expires, timer,
                 stopped, setting, lock_until>>

(* With an alarm less than two seconds away the suspend is refused.  A     *)
(* timer that runs out before this step has changed its queue already.     *)
alarm_suspend ==
  LET due == {timer[q].expires : q \in WakeupQueue} IN
  /\ device = "entering"
  /\ IF \E t \in due : wall + 1 >= t
       THEN /\ timer' = [q \in Queues |->
                 IF q \in WakeupQueues /\ queue[q] # << >>
                   THEN Armed(q, queue, expires) ELSE Cancelled[q]]
            /\ lock_until' = real + 2
            /\ rtc_alarm' = NoAlarm
            /\ device' = "on"
            /\ suspended' = FALSE
            /\ UNCHANGED since
       ELSE /\ timer' = Cancelled
            /\ rtc_alarm' = IF due = {} THEN rtc_alarm
                            ELSE [enabled |-> TRUE,
                                  time |-> CHOOSE t \in due : TRUE]
            /\ device' = "suspending"
            /\ since' = real
            /\ UNCHANGED <<suspended, lock_until>>
  /\ UNCHANGED <<clockVars, slept, queue, expires, stopped, setting>>

(* The other drivers have suspended, however long they took, and           *)
(* power_suspend_late finds no wake lock held.                             *)
Sleep ==
  /\ device = "suspending"
  /\ ~ LockHeld
  /\ device' = "asleep"
  /\ slept' = real
  /\ UNCHANGED <<clockVars, since, rtc_alarm, queue, expires, timer, stopped,
                 setting, suspended, lock_until>>

(* Mutant: the timers are not set again. *)
ResumeSilently ==
  /\ device \in {"suspending", "asleep", "resuming"}
  /\ device' = "on"
  /\ suspended' = FALSE
  /\ rtc_alarm' = NoAlarm
  /\ since' = 0 /\ slept' = 0
  /\ UNCHANGED <<clockVars, queue, expires, timer, stopped, setting,
                 lock_until>>

(* After a wakeup, or after a suspend that failed.                         *)
alarm_resume ==
  /\ device \in {"suspending", "asleep", "resuming"}
  /\ device' = "on"
  /\ suspended' = FALSE
  /\ rtc_alarm' = NoAlarm
  /\ UpdateTimers(WakeupQueues, queue, expires, FALSE, stopped)
  /\ since' = 0 /\ slept' = 0
  /\ UNCHANGED <<clockVars, queue, expires, stopped, setting, lock_until>>

(* The RTC alarm goes off; the interrupt wakes the device.                 *)
alarm_triggered_func ==
  /\ rtc_alarm.enabled /\ rtc_alarm.time <= wall
  /\ rtc_alarm' = NoAlarm
  /\ lock_until' = real + 1
  /\ device' = IF device = "asleep" THEN "resuming" ELSE device
  /\ UNCHANGED <<clockVars, since, slept, queue, expires, timer, stopped, setting,
                 suspended>>

(* A second passes.  The RTC's interrupt is not a second late.             *)
Tick ==
  /\ real < MaxTime
  /\ rtc_alarm.enabled => rtc_alarm.time > wall
  /\ real' = real + 1
  /\ wall' = wall + 1
  /\ mono' = IF device = "asleep" THEN mono ELSE mono + 1
  /\ lock_until' = IF lock_until <= real + 1 THEN 0 ELSE lock_until
  /\ lost' = IF setting.at = "settime" THEN lost + 1 ELSE lost
  /\ UNCHANGED <<delta, stopped_time, powerVars, queue, expires, timer,
                 stopped, setting, suspended>>

-----------------------------------------------------------------------------
AlarmNext ==
  \/ \E a \in Alarms, t \in Times : alarm_start_range(a, t)
  \/ \E a \in Alarms : alarm_try_to_cancel(a)
  \/ \E q \in Queues : alarm_timer_triggered(q)
  \/ \E t \in Times : BeginSetRtc(t)
  \/ do_settimeofday
  \/ RestartTimers
  \/ EndSetRtc
  \/ SetSuspended
  \/ alarm_suspend
  \/ Sleep
  \/ alarm_resume
  \/ alarm_triggered_func
  \/ Tick

AlarmInit == \E t \in Times : alarm_driver_init(t)

AlarmSpec == AlarmInit /\ [][AlarmNext]_alarmVars

-----------------------------------------------------------------------------
ArmedFor(q, a) == timer[q].on /\ timer[q].expires <= Delta(q) + expires[a]

QueueArmed(q) ==
  ~ Stopped(q) /\ ~ suspended => \A a \in Range(queue[q]) : ArmedFor(q, a)

(* No alarm is forgotten: with the device on, a queue with alarms has its  *)
(* hrtimer set for its first alarm ("the absolute expiry time" of struct   *)
(* alarm) or earlier, unless the time is just being set; also after the    *)
(* timers were cancelled for a suspend that succeeded or failed.           *)
TimerArmed == \A q \in Queues : QueueArmed(q)

(* The RTC is set for the first alarm of either wakeup queue or earlier.   *)
Covered ==
  \A q \in WakeupQueues : \A a \in Range(queue[q]) :
    rtc_alarm.enabled /\ rtc_alarm.time <= Delta(q) + expires[a]

(* The device sleeps through no wakeup alarm, in whatever order the queues *)
(* were changed: the RTC is set for it.  Only when the other drivers took  *)
(* three seconds to suspend, so that the RTC alarm has gone off and its    *)
(* lock has ended in the meantime, may it sleep with the RTC alarm spent.  *)
RtcArmed == device = "asleep" => Covered \/ slept - since >= 3

(* "set rtc while preserving elapsed realtime" (android_alarm.h): once     *)
(* alarm_set_rtc has returned, elapsed time is the time since boot but for *)
(* what passed between reading and setting the wall time.                  *)
ElapsedKept == setting.at = "none" => alarm_get_elapsed_realtime = real - lost
=============================================================================
