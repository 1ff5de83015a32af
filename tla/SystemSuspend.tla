--------------------------- MODULE SystemSuspend ---------------------------
(***************************************************************************)
(* One attempt to suspend: the function suspend() of suspend_work          *)
(* (kernel/power/wakelock.c), and below it pm_suspend, enter_state,        *)
(* suspend_prepare, suspend_devices_and_enter and suspend_enter            *)
(* (kernel/power/suspend.c) with the freezer (kernel/power/process.c) and  *)
(* the device callbacks (drivers/base/power/main.c).                       *)
(*                                                                         *)
(* The worker's labels, in the order of the code:                          *)
(*                                                                         *)
(*   suspend       about to look for wake locks                            *)
(*   entry         about to read current_event_num                         *)
(*   pm_suspend    about to read requested_suspend_state                   *)
(*   prepare       about to call the suspend notifiers                     *)
(*   freeze_user   freezing user space                                     *)
(*   freeze_tasks  user space frozen, freezing kernel threads              *)
(*   devices       all frozen, suspending devices                          *)
(*   noirq         device interrupts off, about to run power_suspend_late  *)
(*   late          power_suspend_late done, CPU interrupts still on        *)
(*   asleep        interrupts off, in suspend_ops->enter                   *)
(*   resume        interrupts back on, resuming devices                    *)
(*   thaw          thawing processes                                       *)
(*   exit          pm_suspend returned, about to handle the wakeup reason  *)
(*   retry         about to take unknown_wakeup if pm_suspend failed       *)
(*   check_event   about to compare current_event_num                      *)
(*   no_event      no event seen, about to take unknown_wakeup             *)
(***************************************************************************)
EXTENDS WakeLock

CONSTANTS
  RetryTimeout,   \* 2*HZ, how long unknown_wakeup is held after an error
  NoEventTimeout, \* HZ/2, how long it is held after a wakeup without event
  PowerKeyLock,   \* wake lock of the evdev client that reads KEY_POWER
  KeyTimeout      \* 5*HZ, how long that client's lock is held for an event

ASSUME SuspendTimeoutsAssumption ==
  /\ RetryTimeout \in 1 .. LongMax
  /\ NoEventTimeout \in 1 .. LongMax
  /\ KeyTimeout \in 1 .. LongMax

ASSUME PowerKeyLockAssumption ==
  PowerKeyLock \in SuspendLocks \ {MainLock, UnknownWakeup}

VARIABLES
  ret,                      \* pm_suspend's result: TRUE is an error
  g_wkup_wkst,              \* a pad wakeup was recorded (OMAP3430_ST_IO_MASK)
  requested_suspend_state   \* "on" or "mem"

suspendVars == <<ret, g_wkup_wkst, requested_suspend_state>>

SuspendLabels ==
  {"suspend", "entry", "pm_suspend", "prepare", "freeze_user",
   "freeze_tasks", "devices", "noirq", "late", "asleep", "resume", "thaw",
   "exit", "retry", "check_event", "no_event"}

SystemSuspendTypeOK ==
  /\ ret \in BOOLEAN
  /\ g_wkup_wkst \in BOOLEAN
  /\ requested_suspend_state \in {"on", "mem"}

SystemSuspendInit ==
  /\ ret = FALSE
  /\ g_wkup_wkst = FALSE
  /\ requested_suspend_state = "mem"

-----------------------------------------------------------------------------
(* Who can run beside the worker (one CPU, CONFIG_PREEMPT).                *)

(* User space and freezable threads stop once all of them are frozen. *)
TasksRun == pc \notin {"freeze_tasks", "devices", "noirq", "late", "asleep",
                       "resume"}

(* Device interrupt handlers run until suspend_device_irqs. *)
DriversRun == pc \notin {"noirq", "late", "asleep"}

(* Timers and PF_NOFREEZE threads run until arch_suspend_disable_irqs. *)
KernelRuns == pc # "asleep"

-----------------------------------------------------------------------------
(* suspend(), up to the call of pm_suspend *)

StartSuspend ==
  /\ pc = "suspend"
  /\ pc' = IF has_wake_lock = 0 THEN "entry" ELSE "idle"
  /\ WalkLocks
  /\ UNCHANGED <<wait_for_wakeup, event, worklist, suspendVars>>

ReadEventNum ==
  /\ Goto("entry", "pm_suspend")
  /\ event' = FALSE
  /\ UNCHANGED <<initialized, active, auto_expire, left, preventing,
                 expire_timer, expiring, wait_for_wakeup, worklist,
                 suspendVars>>

(* pm_suspend rejects PM_SUSPEND_ON: the user may have asked for "on" since. *)
pm_suspend ==
  /\ pc = "pm_suspend"
  /\ \/ requested_suspend_state = "mem" /\ pc' = "prepare" /\ ret' = FALSE
     \/ requested_suspend_state = "on"  /\ pc' = "exit"    /\ ret' = TRUE
  /\ UNCHANGED <<wlVars, worklist, g_wkup_wkst, requested_suspend_state>>

(* enter_state's trylock of pm_mutex, a notifier or usermodehelper_disable *)
(* may fail before anything is frozen.                                     *)
suspend_prepare ==
  /\ pc = "prepare"
  /\ \/ pc' = "freeze_user" /\ UNCHANGED ret
     \/ pc' = "exit" /\ ret' = TRUE
  /\ UNCHANGED <<wlVars, worklist, g_wkup_wkst, requested_suspend_state>>

(***************************************************************************)
(* One round of the loop of try_to_freeze_tasks.  Only a round that leaves *)
(* tasks to freeze looks at the wake locks; it gives up if there is one,   *)
(* or after 20 seconds.  If all tasks are frozen the locks are not looked  *)
(* at.                                                                     *)
(***************************************************************************)
try_to_freeze_tasks(from, to) ==
  /\ pc = from
  /\ \/ /\ pc' = to
        /\ UNCHANGED <<wlVars, ret>>
     \/ /\ WalkLocks
        /\ UNCHANGED <<wait_for_wakeup, event>>
        /\ \/ pc' = "thaw" /\ ret' = TRUE
           \/ has_wake_lock = 0 /\ UNCHANGED <<pc, ret>>
  /\ UNCHANGED <<worklist, g_wkup_wkst, requested_suspend_state>>

freeze_processes ==
  \/ try_to_freeze_tasks("freeze_user", "freeze_tasks")
  \/ try_to_freeze_tasks("freeze_tasks", "devices")

(* dpm_suspend_start: an error of a device's callback is returned. *)
SuspendDevices ==
  /\ pc = "devices"
  /\ \/ pc' = "noirq" /\ UNCHANGED ret
     \/ pc' = "resume" /\ ret' = TRUE
  /\ UNCHANGED <<wlVars, worklist, g_wkup_wkst, requested_suspend_state>>

(***************************************************************************)
(* dpm_suspend_noirq calls power_suspend_late among the other devices'     *)
(* callbacks, any of which may fail first.  suspend_devices_and_enter      *)
(* drops the result of suspend_enter, so ret stays 0 on every error from   *)
(* here on, -EAGAIN of power_suspend_late included.                        *)
(***************************************************************************)

(* Mutant: power_suspend_late does not return -EAGAIN. *)
NoLateCheck ==
  /\ Goto("noirq", "late")
  /\ wait_for_wakeup' = TRUE
  /\ WalkLocks
  /\ UNCHANGED <<event, worklist, suspendVars>>

(* Mutant: only a lock without a timeout stops the suspend. *)
LateCheckUntimed ==
  /\ pc = "noirq"
  /\ pc' = IF has_wake_lock >= 0 THEN "late" ELSE "resume"
  /\ wait_for_wakeup' = TRUE
  /\ WalkLocks
  /\ UNCHANGED <<event, worklist, suspendVars>>

power_suspend_late ==
  /\ pc = "noirq"
  /\ pc' = IF has_wake_lock = 0 THEN "late" ELSE "resume"
  /\ wait_for_wakeup' = TRUE
  /\ WalkLocks
  /\ UNCHANGED <<event, worklist, suspendVars>>

NoirqCallbackFails ==
  /\ \/ Goto("noirq", "resume")
     \/ Goto("late", "resume")
  /\ UNCHANGED <<wlVars, worklist, suspendVars>>

(* arch_suspend_disable_irqs, sysdev_suspend and suspend_ops->enter *)
EnterSleep ==
  /\ Goto("late", "asleep")
  /\ UNCHANGED <<wlVars, worklist, suspendVars>>

(* A wakeup source ends omap_sram_idle; omap3_pm_suspend records whether it *)
(* was a pad, and interrupts and noirq devices resume.                      *)
WakeUp ==
  /\ Goto("asleep", "resume")
  /\ g_wkup_wkst' \in BOOLEAN
  /\ UNCHANGED <<wlVars, worklist, ret, requested_suspend_state>>

ResumeDevices ==
  /\ Goto("resume", "thaw")
  /\ UNCHANGED <<wlVars, worklist, suspendVars>>

ThawProcesses ==
  /\ Goto("thaw", "exit")
  /\ UNCHANGED <<wlVars, worklist, suspendVars>>

-----------------------------------------------------------------------------
(* suspend(), from the return of pm_suspend on *)

(* omap3_get_wakeup_reason: WKUP_UNKNOWN unless a pad wakeup is recorded;  *)
(* "other" stands for every reason that sends no event, "card" for a card  *)
(* inserted or removed that only the power chip's handler has recorded.    *)
WakeupReasons ==
  {"card", "other"} \cup
    (IF g_wkup_wkst THEN {"batt_low", "sd", "cable"} ELSE {})

send_event(reason) ==
  \/ reason = "batt_low"
  \/ requested_suspend_state # "on" /\ reason \in {"sd", "cable", "card"}

(* SendPowerbuttonEvent: evdev_pass_event holds the reading client's lock. *)
SendPowerbuttonEvent ==
  IF PowerKeyLock \in initialized
  THEN wake_lock_timeout(PowerKeyLock, KeyTimeout)
  ELSE UNCHANGED <<wlVars, worklist>>

HandleWakeupReason ==
  /\ Goto("exit", "retry")
  /\ \E reason \in WakeupReasons :
       IF send_event(reason) THEN SendPowerbuttonEvent
                             ELSE UNCHANGED <<wlVars, worklist>>
  /\ g_wkup_wkst' = FALSE
  /\ UNCHANGED <<ret, requested_suspend_state>>

HoldAfterError ==
  /\ Goto("retry", "check_event")
  /\ IF ret THEN wake_lock_timeout(UnknownWakeup, RetryTimeout)
            ELSE UNCHANGED <<wlVars, worklist>>
  /\ UNCHANGED suspendVars

(* Mutant: a wakeup without an event is not noticed. *)
EventNumNotChecked ==
  /\ Goto("check_event", "idle")
  /\ UNCHANGED <<wlVars, worklist, suspendVars>>

CheckEventNum ==
  /\ pc = "check_event"
  /\ pc' = IF event THEN "idle" ELSE "no_event"
  /\ UNCHANGED <<wlVars, worklist, suspendVars>>

HoldAfterNoEvent ==
  /\ Goto("no_event", "idle")
  /\ wake_lock_timeout(UnknownWakeup, NoEventTimeout)
  /\ UNCHANGED suspendVars

(* The steps of the worker in suspend(); WakeUp is the wakeup source's. *)
suspend ==
  \/ StartSuspend \/ ReadEventNum \/ pm_suspend \/ suspend_prepare
  \/ freeze_processes \/ SuspendDevices \/ power_suspend_late
  \/ NoirqCallbackFails \/ EnterSleep \/ ResumeDevices \/ ThawProcesses
  \/ HandleWakeupReason \/ HoldAfterError \/ CheckEventNum
  \/ HoldAfterNoEvent
=============================================================================
