------------------------------ MODULE WakeLock ------------------------------
(***************************************************************************)
(* Wake locks (kernel/power/wakelock.c).  Every operation below runs       *)
(* under the spinlock list_lock with interrupts off, hence is one step.    *)
(*                                                                         *)
(* Time is kept relative to jiffies, as the code reads it: left[l] is the  *)
(* signed difference (long)(l->expires - jiffies) of a lock with a         *)
(* timeout, and expire_timer the number of ticks until expire_timer is     *)
(* due.  A long ranges over -LongMax-1 .. LongMax, so an expiry left       *)
(* behind for LongMax+1 ticks wraps around to the future again.            *)
(*                                                                         *)
(* The two lists active_wake_locks[WAKE_LOCK_SUSPEND] and                  *)
(* active_wake_locks[WAKE_LOCK_IDLE] are one set active: a lock is put at  *)
(* the head when it has no timeout and at the tail when it has one, so a   *)
(* walk meets every lock without timeout before the first one with a       *)
(* timeout, and the order among the others does not change its result.     *)
(* The statistics of struct wake_lock are counters for /proc/wakelocks     *)
(* and are left out, except the flag WAKE_LOCK_PREVENTING_SUSPEND.         *)
(***************************************************************************)
EXTENDS WorkQueue, FiniteSetsExt

CONSTANTS
  Locks,          \* every struct wake_lock
  MainLock,       \* main_wake_lock
  UnknownWakeup,  \* unknown_wakeup
  IdleLocks,      \* the locks of type WAKE_LOCK_IDLE
  LongMax         \* LONG_MAX, the largest value of a long

Long == (-LongMax - 1) .. LongMax

SuspendLocks == Locks \ IdleLocks

(* LONG_MAX is positive; the kernel's own two locks are WAKE_LOCK_SUSPEND. *)
ASSUME LongMaxAssumption == LongMax \in Nat \ {0}

ASSUME LocksAssumption ==
  /\ IdleLocks \subseteq Locks
  /\ MainLock \in SuspendLocks
  /\ UnknownWakeup \in SuspendLocks
  /\ MainLock # UnknownWakeup

VARIABLES
  initialized,      \* WAKE_LOCK_INITIALIZED
  active,           \* WAKE_LOCK_ACTIVE: on an active list
  auto_expire,      \* WAKE_LOCK_AUTO_EXPIRE: has a timeout
  left,             \* lock -> (long)(expires - jiffies), 0 without a timeout
  preventing,       \* WAKE_LOCK_PREVENTING_SUSPEND
  expire_timer,     \* ticks until the timer is due, NoTimer if not pending
  expiring,         \* the timer was taken off its queue, its function not run
  wait_for_wakeup,  \* the next lock is reported as the wakeup lock
  event             \* current_event_num # the entry_event_num of suspend()

wlVars == <<initialized, active, auto_expire, left, preventing,
            expire_timer, expiring, wait_for_wakeup, event>>

NoTimer == -1

WakeLockTypeOK ==
  /\ initialized \subseteq Locks
  /\ active \subseteq initialized
  /\ auto_expire \subseteq active
  /\ left \in [Locks -> Long]
  /\ preventing \subseteq active
  /\ expire_timer \in NoTimer .. LongMax
  /\ expiring \in BOOLEAN
  /\ wait_for_wakeup \in BOOLEAN
  /\ event \in BOOLEAN

(* wakelocks_init: the main lock is held from the start. *)
wakelocks_init ==
  /\ initialized = {MainLock, UnknownWakeup}
  /\ active = {MainLock}
  /\ auto_expire = {}
  /\ left = [l \in Locks |-> 0]
  /\ preventing = {}
  /\ expire_timer = NoTimer
  /\ expiring = FALSE
  /\ wait_for_wakeup = FALSE
  /\ event = TRUE

-----------------------------------------------------------------------------
(* The walk over active_wake_locks[WAKE_LOCK_SUSPEND], on the active locks *)
(* A, those with a timeout T and their time left L.                        *)

Untimed(A, T) == (A \cap SuspendLocks) \ T

(* Mutant: the shortest running timeout instead of the longest. *)
ShortestTimeLeft(A, T, L) ==
  LET running == {L[l] : l \in A \cap SuspendLocks} \ (-LongMax - 1) .. 0
  IN  IF Untimed(A, T) # {} THEN -1
      ELSE IF running = {} THEN 0 ELSE Min(running)

(* -1 for a lock without timeout, else the longest time left, 0 for none. *)
has_wake_lock_locked(A, T, L) ==
  IF Untimed(A, T) # {}
  THEN -1
  ELSE Max({0} \cup {L[l] : l \in A \cap SuspendLocks})

(* The locks that the walk passes to expire_wake_lock. *)
Expired(A, T, L) ==
  IF Untimed(A, T) # {}
  THEN {}
  ELSE {l \in A \cap SuspendLocks : L[l] <= 0}

(* The lock lists after the walk, P being the preventing flags before it. *)
ExpireLocks(A, T, L, P) ==
  LET E == Expired(A, T, L) IN
  /\ active' = A \ E
  /\ auto_expire' = T \ E
  /\ left' = [l \in Locks |-> IF l \in E THEN 0 ELSE L[l]]
  /\ preventing' = P \ E

(* update_sleep_wait_stats_locked(done) on the flags P. *)
update_sleep_wait_stats_locked(A, T, L, P, done) ==
  (P \ (A \cap SuspendLocks))
    \cup {l \in A \cap SuspendLocks :
            ~done /\ ~(l \in T /\ L[l] <= 0)}

(* mod_timer or del_timer, by the result of the walk. *)
SetExpireTimer(has_lock) ==
  expire_timer' = IF has_lock > 0 THEN has_lock ELSE NoTimer

QueueSuspend(has_lock) ==
  worklist' = IF has_lock = 0 THEN queue_work(worklist, "suspend")
                              ELSE worklist

-----------------------------------------------------------------------------
(* has_wake_lock(WAKE_LOCK_SUSPEND): the result, and the effect of the walk. *)
has_wake_lock == has_wake_lock_locked(active, auto_expire, left)

WalkLocks ==
  /\ ExpireLocks(active, auto_expire, left, preventing)
  /\ UNCHANGED <<initialized, expire_timer, expiring>>

wake_lock_init(l) ==
  /\ l \notin initialized
  /\ initialized' = initialized \cup {l}
  /\ UNCHANGED <<active, auto_expire, left, preventing, expire_timer,
                 expiring, wait_for_wakeup, event>>

(***************************************************************************)
(* wake_lock_destroy takes the lock off its list and looks at nothing      *)
(* else: neither the timer nor suspend_work.  The flags it leaves behind   *)
(* are overwritten by the wake_lock_init a later use starts with.          *)
(***************************************************************************)
wake_lock_destroy(l) ==
  /\ l \in initialized
  /\ initialized' = initialized \ {l}
  /\ active' = active \ {l}
  /\ auto_expire' = auto_expire \ {l}
  /\ left' = [left EXCEPT ![l] = 0]
  /\ preventing' = preventing \ {l}
  /\ UNCHANGED <<expire_timer, expiring, wait_for_wakeup, event>>

(***************************************************************************)
(* wake_lock_internal, except the queueing of suspend_work.  Taking a lock *)
(* whose timeout is over first ends its statistics, which drops its        *)
(* preventing flag.  Without a timeout expire_in is -1 whatever else is    *)
(* held: the lists are not walked and the timer is deleted.                *)
(***************************************************************************)

LockedTimed(l, has_timeout) ==
  IF has_timeout THEN auto_expire \cup {l} ELSE auto_expire \ {l}

LockedLeft(l, has_timeout, timeout) ==
  [left EXCEPT ![l] = IF has_timeout THEN timeout ELSE 0]

LockedPreventing(l, T, L) ==
  LET A == active \cup {l}
      P == IF l \in auto_expire /\ left[l] <= 0
           THEN preventing \ {l} ELSE preventing
  IN  IF l \in SuspendLocks /\ (l = MainLock \/ MainLock \notin A)
      THEN update_sleep_wait_stats_locked(A, T, L, P, l = MainLock)
      ELSE P

expire_in(l, has_timeout, timeout) ==
  IF has_timeout
  THEN has_wake_lock_locked(active \cup {l}, LockedTimed(l, has_timeout),
                            LockedLeft(l, has_timeout, timeout))
  ELSE -1

(* The part for WAKE_LOCK_SUSPEND: the event count and the timer. *)
ArmAfterLock(l, has_timeout, timeout) ==
  IF l \in SuspendLocks
  THEN /\ wait_for_wakeup' = FALSE
       /\ event' = TRUE
       /\ SetExpireTimer(expire_in(l, has_timeout, timeout))
  ELSE UNCHANGED <<wait_for_wakeup, event, expire_timer>>

wake_lock_internal(l, has_timeout, timeout) ==
  LET A == active \cup {l}
      T == LockedTimed(l, has_timeout)
      L == LockedLeft(l, has_timeout, timeout)
      P == LockedPreventing(l, T, L)
  IN
  /\ IF l \in SuspendLocks /\ has_timeout
     THEN ExpireLocks(A, T, L, P)
     ELSE active' = A /\ auto_expire' = T /\ left' = L /\ preventing' = P
  /\ ArmAfterLock(l, has_timeout, timeout)
  /\ UNCHANGED expiring

QueueIfExpired(l, timeout) ==
  IF l \in SuspendLocks
  THEN QueueSuspend(expire_in(l, TRUE, timeout))
  ELSE UNCHANGED worklist

(* wake_lock never queues suspend_work; worklist is left to the caller,    *)
(* because request_suspend_state queues late_resume_work in the same step. *)
wake_lock(l) ==
  /\ l \in initialized
  /\ wake_lock_internal(l, FALSE, 0)
  /\ UNCHANGED initialized

wake_lock_timeout(l, timeout) ==
  /\ l \in initialized
  /\ wake_lock_internal(l, TRUE, timeout)
  /\ QueueIfExpired(l, timeout)
  /\ UNCHANGED initialized

(***************************************************************************)
(* wake_unlock: also of a lock that is not active, and then it still       *)
(* walks the list and queues suspend_work if nothing is held.              *)
(***************************************************************************)
wake_unlock(l) ==
  LET A == active \ {l}
      T == auto_expire \ {l}
      L == [left EXCEPT ![l] = 0]
      P == preventing \ {l}
      E == Expired(A, T, L)
      has_lock == has_wake_lock_locked(A, T, L)
  IN
  /\ l \in initialized
  /\ IF l \in SuspendLocks
     THEN /\ ExpireLocks(A, T, L,
               IF l = MainLock
               THEN update_sleep_wait_stats_locked(A \ E, T \ E, L, P, FALSE)
               ELSE P)
          /\ SetExpireTimer(has_lock)
          /\ QueueSuspend(has_lock)
     ELSE /\ active' = A /\ auto_expire' = T /\ left' = L /\ preventing' = P
          /\ UNCHANGED <<expire_timer, worklist>>
  /\ UNCHANGED <<initialized, expiring, wait_for_wakeup, event>>

-----------------------------------------------------------------------------
(* The timer softirq (kernel/timer.c, __run_timers) takes a due timer off  *)
(* its queue and calls its function without a lock held: an interrupt may  *)
(* change the lock lists, and arm the timer again, before the function has *)
(* list_lock.                                                              *)
run_timers ==
  /\ expire_timer = 0
  /\ ~expiring
  /\ expire_timer' = NoTimer
  /\ expiring' = TRUE
  /\ UNCHANGED <<initialized, active, auto_expire, left, preventing,
                 wait_for_wakeup, event, wqVars>>

expire_wake_locks ==
  /\ expiring
  /\ expiring' = FALSE
  /\ ExpireLocks(active, auto_expire, left, preventing)
  /\ QueueSuspend(has_wake_lock)
  /\ UNCHANGED <<initialized, expire_timer, wait_for_wakeup, event, pc>>

(***************************************************************************)
(* jiffies + 1.  The softirq runs within far less than LongMax ticks of    *)
(* the moment a timer is due, so no expiry wraps around while it is due.   *)
(***************************************************************************)
Tick ==
  /\ (expire_timer = 0 \/ expiring) =>
        \A l \in auto_expire : left[l] > -LongMax - 1
  /\ left' = [l \in Locks |->
                IF l \notin auto_expire THEN left[l]
                ELSE IF left[l] = -LongMax - 1 THEN LongMax
                ELSE left[l] - 1]
  /\ expire_timer' = IF expire_timer > 0 THEN expire_timer - 1
                                         ELSE expire_timer
  /\ UNCHANGED <<initialized, active, auto_expire, preventing, expiring,
                 wait_for_wakeup, event, wqVars>>

-----------------------------------------------------------------------------
(* The invariant that ties the timer to the locks.  While no lock without  *)
(* timeout is held, every lock is one the timer, or its function, is still *)
(* going to look at; the timer is due no earlier than the last running     *)
(* timeout, and no timeout that is over is about to wrap around.           *)
TimerCoversLocks ==
  Untimed(active, auto_expire) = {} =>
    /\ expire_timer = NoTimer /\ ~expiring => active \cap SuspendLocks = {}
    /\ \A l \in active \cap SuspendLocks :
         /\ left[l] > 0 => left[l] <= expire_timer
         /\ expire_timer > 0 => left[l] >= expire_timer - LongMax

(* A suspend is prevented, or on its way through the timer or the queue. *)
SuspendArmed ==
  \/ Untimed(active, auto_expire) # {}
  \/ expire_timer # NoTimer
  \/ expiring
  \/ Pending("suspend")

(* The sleep statistics: no lock is charged for preventing suspend while   *)
(* the main lock is held, and every lock without timeout is charged while  *)
(* it is not.                                                              *)
PreventingCharged ==
  /\ preventing \subseteq SuspendLocks
  /\ MainLock \in active => preventing = {}
  /\ MainLock \notin active => Untimed(active, auto_expire) \subseteq preventing

(* The kernel's own locks exist, and the main lock never has a timeout. *)
MainLockUntimed ==
  /\ {MainLock, UnknownWakeup} \subseteq initialized
  /\ MainLock \notin auto_expire

WakeLockInv ==
  /\ WakeLockTypeOK
  /\ MainLockUntimed
  /\ TimerCoversLocks
  /\ PreventingCharged
=============================================================================
