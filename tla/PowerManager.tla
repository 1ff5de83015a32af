---------------------------- MODULE PowerManager ----------------------------
(***************************************************************************)
(* Android power management as a whole: the worker of suspend_work_queue   *)
(* (SystemSuspend, EarlySuspend), the expire timer and the clock           *)
(* (WakeLock), user space writing to /sys/power (EarlySuspend,             *)
(* UserWakeLock), and the drivers, which take wake locks in interrupt      *)
(* handlers, timers and kernel threads.                                    *)
(***************************************************************************)
EXTENDS EarlySuspend, UserWakeLock

CONSTANTS
  DriverLocks,    \* locks that device interrupt handlers take
  LateLocks,      \* locks that timers and PF_NOFREEZE threads take
  DriverTimeouts  \* the timeouts drivers pass to wake_lock_timeout

ASSUME DriverLocksAssumption ==
  /\ DriverLocks \subseteq Locks \ {MainLock, UnknownWakeup}
  /\ LateLocks \subseteq Locks \ {MainLock, UnknownWakeup}
  /\ PowerKeyLock \in DriverLocks
  /\ DriverTimeouts \subseteq Long

vars == <<wqVars, wlVars, suspendVars, earlyVars>>

TypeOK ==
  /\ worklist \in Seq(Works)
  /\ pc \in {"idle"} \cup SuspendLabels \cup EarlyLabels
  /\ WakeLockTypeOK
  /\ SystemSuspendTypeOK
  /\ EarlySuspendTypeOK

Init ==
  /\ WorkQueueInit
  /\ wakelocks_init
  /\ SystemSuspendInit
  /\ EarlySuspendInit

-----------------------------------------------------------------------------
(* The worker thread of suspend_work_queue *)

TakeWork ==
  /\ run_workqueue
  /\ UNCHANGED <<wlVars, suspendVars, earlyVars>>

RunSuspend == suspend /\ UNCHANGED earlyVars

Worker == TakeWork \/ RunSuspend \/ early_suspend \/ late_resume

Wake == WakeUp /\ UNCHANGED earlyVars

-----------------------------------------------------------------------------
(* Clock and timer interrupts; jiffies stand still while asleep *)

Clock == KernelRuns /\ Tick /\ UNCHANGED <<suspendVars, earlyVars>>

TimerDue == KernelRuns /\ run_timers /\ UNCHANGED <<suspendVars, earlyVars>>

TimerRuns ==
  KernelRuns /\ expire_wake_locks /\ UNCHANGED <<suspendVars, earlyVars>>

-----------------------------------------------------------------------------
(* User space *)

WriteState == TasksRun /\ state_store

WriteWakeLock ==
  /\ TasksRun
  /\ \E l \in UserLocks :
       \/ \E nsec \in UserTimeouts \cup {NoTimeout} : wake_lock_store(l, nsec)
       \/ wake_unlock_store(l)
  /\ UNCHANGED <<pc, suspendVars, earlyVars>>

RegisterHandler ==
  /\ TasksRun
  /\ \E h \in Handlers :
       register_early_suspend(h) \/ unregister_early_suspend(h)
  /\ UNCHANGED <<wqVars, wlVars, suspendVars>>

-----------------------------------------------------------------------------
(* Drivers *)

UseLock(l) ==
  \/ wake_lock(l) /\ UNCHANGED worklist
  \/ \E timeout \in DriverTimeouts : wake_lock_timeout(l, timeout)
  \/ wake_unlock(l)

(* A driver creates its lock when it is probed or its device file opened,  *)
(* and releases a lock without timeout before it destroys it: the lists    *)
(* are not walked then, and nothing else would start a suspend.            *)
CreateOrDestroyLock ==
  /\ TasksRun
  /\ \E l \in DriverLocks \cup LateLocks :
       \/ wake_lock_init(l)
       \/ l \notin Untimed(active, auto_expire) /\ wake_lock_destroy(l)
  /\ UNCHANGED <<wqVars, suspendVars, earlyVars>>

DriverInterrupt ==
  /\ DriversRun
  /\ \E l \in DriverLocks : UseLock(l)
  /\ UNCHANGED <<pc, suspendVars, earlyVars>>

LateDriver ==
  /\ KernelRuns
  /\ \E l \in LateLocks : UseLock(l)
  /\ UNCHANGED <<pc, suspendVars, earlyVars>>

-----------------------------------------------------------------------------
Next ==
  \/ Worker \/ Wake
  \/ Clock \/ TimerDue \/ TimerRuns
  \/ WriteState \/ WriteWakeLock \/ RegisterHandler
  \/ CreateOrDestroyLock \/ DriverInterrupt \/ LateDriver

Spec == Init /\ [][Next]_vars

(***************************************************************************)
(* The worker is a kernel thread and the timer softirq and the clock       *)
(* interrupt run as long as the CPU does.  Nothing is assumed of user      *)
(* space, of the drivers or of the wakeup sources.                         *)
(***************************************************************************)
Fairness ==
  /\ WF_vars(Worker)
  /\ WF_vars(Clock)
  /\ WF_vars(TimerDue)
  /\ WF_vars(TimerRuns)

FairSpec == Spec /\ Fairness

-----------------------------------------------------------------------------
(* Safety *)

(* A wake lock keeps the system awake: when suspend_ops->enter is called,  *)
(* no lock is held but one that a timer or a PF_NOFREEZE thread took       *)
(* after power_suspend_late looked.                                        *)
SleepOnlyUnlocked ==
  pc = "asleep" => active \cap SuspendLocks \subseteq LateLocks

(* What the header of wake locks says of them: "A wake_lock prevents the   *)
(* system from entering suspend or other low power states when active"     *)
(* (include/linux/wakelock.h).                                             *)
WakeLockPreventsSuspend ==
  pc = "asleep" => active \cap SuspendLocks = {}

(* The system only sleeps in the state the user asked for: the screen was  *)
(* turned off and no request to turn it on is outstanding, and every       *)
(* registered handler has been told to suspend.                            *)
SleepOnlyWhenOff ==
  pc = "asleep" =>
    /\ state = REQUESTED_AND_SUSPENDED
    /\ requested_suspend_state = "mem"
    /\ off = Registered

(* early_suspend releases the main lock only once sleep is requested and   *)
(* all handlers are suspended, and request_suspend_state takes it back     *)
(* before anything else can happen.                                        *)
MainLockHeld ==
  MainLock \notin active => state = REQUESTED_AND_SUSPENDED /\ off = Registered

(* When no lock without timeout is held, something is left that will try   *)
(* to suspend: the expire timer, its function, the work item or suspend()  *)
(* itself.  Nothing polls, so if this failed the device would stay awake   *)
(* until its battery is empty.                                             *)
NoLostSuspend == SuspendArmed \/ pc \in SuspendLabels

(* A change of the requested state is never lost, however the writes of    *)
(* "on" and "mem" fall between the steps of the worker and although        *)
(* queue_work drops an item that is already pending.                       *)
NoLostRequest ==
  /\ state = {REQUESTED} =>
       Pending("early_suspend") \/ pc = "early_suspend"
  /\ state = {SUSPENDED} =>
       Pending("late_resume") \/ pc = "late_resume"
  /\ state = REQUESTED_AND_SUSPENDED /\ MainLock \in active =>
       Pending("early_suspend")
         \/ pc \in {"early_suspend", "call_suspend", "early_unlock"}

(* Suspend hooks are called from low to high levels and resume hooks in    *)
(* the opposite order: a handler is never off while one of a lower level   *)
(* is on.                                                                  *)
LevelOrder ==
  \A h \in off : \A g \in Registered : Level[g] < Level[h] => g \in off

(* While early_suspend_lock is free the handlers are all off or all on, as *)
(* the bit SUSPENDED says.                                                 *)
HandlersMatchState ==
  MutexFree => off = IF SUSPENDED \in state THEN Registered ELSE {}

-----------------------------------------------------------------------------
(* The inductive invariant *)

(* The handler list is sorted by level and holds no handler twice. *)
HandlersSorted ==
  \A i, j \in 1 .. Len(handlers) :
    i < j => /\ handlers[i] # handlers[j]
             /\ Level[handlers[i]] <= Level[handlers[j]]

(* Which handlers are off: those before the worker's position while it     *)
(* holds early_suspend_lock, otherwise all or none.                        *)
HandlersCalled ==
  /\ MutexFree => pos = 0
  /\ pc = "call_suspend" =>
       /\ SUSPENDED \in state
       /\ MainLock \in active
       /\ pos > 0
       /\ off = {handlers[i] : i \in 1 .. pos - 1}
  /\ pc = "call_resume" =>
       /\ SUSPENDED \notin state
       /\ pos <= Len(handlers)
       /\ off = {handlers[i] : i \in 1 .. pos}
  /\ HandlersMatchState

(* The main lock is missing only when both bits are set, and the request   *)
(* bit agrees with requested_suspend_state.                                *)
MainLockState ==
  /\ MainLock \notin active => state = REQUESTED_AND_SUSPENDED
  /\ REQUESTED \in state => requested_suspend_state = "mem"

(* Once power_suspend_late has passed, only late locks are taken. *)
LateUnlocked ==
  pc \in {"late", "asleep"} => active \cap SuspendLocks \subseteq LateLocks

(* Inside suspend(): as long as no event was counted since its entry, it   *)
(* will hold unknown_wakeup at its end; once one was, the lock that        *)
(* counted it has armed the next attempt.                                  *)
SuspendReArms ==
  \/ SuspendArmed
  \/ pc \in {"suspend", "entry", "no_event"}
  \/ pc \in SuspendLabels /\ ~event

IInv ==
  /\ TypeOK
  /\ WakeLockInv
  /\ HandlersSorted
  /\ HandlersCalled
  /\ MainLockState
  /\ NoLostRequest
  /\ LateUnlocked
  /\ SuspendReArms

-----------------------------------------------------------------------------
(* Liveness *)

(* A request to turn the screen on is carried out unless it is withdrawn:  *)
(* also when it comes in the middle of an attempt to suspend, which then   *)
(* fails because request_suspend_state holds the main lock.                *)
ScreenTurnsOn ==
  REQUESTED \notin state ~> (REQUESTED \in state \/ SUSPENDED \notin state)

(* A request to sleep ends in the release of the main lock unless it is    *)
(* withdrawn.                                                              *)
MainLockReleased ==
  REQUESTED \in state ~> (REQUESTED \notin state \/ MainLock \notin active)

(* Once no lock other than unknown_wakeup is held, suspend is tried again  *)
(* and again, until the system stays asleep.                               *)
SuspendRetried ==
  \/ []<>((active \cap SuspendLocks) \ {UnknownWakeup} # {})
  \/ []<>(pc = "pm_suspend")
  \/ <>[](pc = "asleep")

-----------------------------------------------------------------------------
(* Refinement: every behaviour of the power manager is one of the contract. *)
Contract == INSTANCE SuspendContract WITH
  Locks   <- SuspendLocks,
  Exempt  <- LateLocks,
  held    <- active \cap SuspendLocks,
  wantOff <- REQUESTED \in state,
  dark    <- SUSPENDED \in state,
  asleep  <- pc = "asleep"

ContractSpec == Contract!Spec
=============================================================================
