------------------------------ MODULE AlarmDev ------------------------------
(***************************************************************************)
(* The device /dev/alarm (drivers/rtc/alarm-dev.c): one alarm of each      *)
(* type, which user space sets, clears and waits for.  An alarm that goes  *)
(* off takes alarm_wake_lock for five seconds; the lock is handed over to  *)
(* the thread that waits and released when it comes back to wait again.    *)
(*                                                                         *)
(* alarm_slock is taken with interrupts off on the only CPU, so a section  *)
(* under it is one step, and so is an alarm that goes off.  Of alarm.c     *)
(* only this is taken: an alarm that was started goes off once, unless it  *)
(* is cancelled.                                                           *)
(***************************************************************************)
EXTENDS Naturals, FiniteSets

CONSTANTS
  Threads,     \* threads that use the device
  Waiters,     \* those of them that wait for alarms
  File,        \* thread -> the open file it uses
  NoFile,
  TypeCount    \* ANDROID_ALARM_TYPE_COUNT

Types == 0 .. TypeCount - 1
TIME_CHANGE == TypeCount
Files == {File[t] : t \in Threads}

ASSUME AlarmDevAssumption ==
  /\ Waiters \subseteq Threads
  /\ TypeCount \in Nat \ {0}
  /\ NoFile \notin Files

(* User space's part of the protocol: a file is waited on by one thread.   *)
ASSUME WaiterAssumption ==
  \A s, t \in Waiters : File[s] = File[t] => s = t

VARIABLES
  owner,          \* the file that set alarm_opened
  alarm_pending, alarm_enabled, wait_pending,
  started,        \* the alarms that alarm.c has in its queues
  lock,           \* alarm_wake_lock: free, held, or expired
  at,             \* thread -> where it is in alarm_ioctl
  handling,       \* the threads that were given an alarm by the last wait
  closing         \* how far alarm_release is, or NotClosing

devVars == <<owner, alarm_pending, alarm_enabled, wait_pending, started, lock,
             at, handling, closing>>

NotClosing == TypeCount + 1

(* The type of the state.  An alarm that is enabled can still go off.      *)
AlarmDevTypeOK ==
  /\ owner \in Files \cup {NoFile}
  /\ alarm_pending \subseteq Types \cup {TIME_CHANGE}
  /\ alarm_enabled \subseteq started /\ started \subseteq Types
  /\ wait_pending \in BOOLEAN
  /\ lock \in {"free", "held", "expired"}
  /\ at \in [Threads -> {"user", "wait", "waiting", "collect"}]
  /\ handling \subseteq Waiters
  /\ closing \in 0 .. NotClosing

alarm_dev_init ==
  /\ owner = NoFile
  /\ alarm_pending = {} /\ alarm_enabled = {} /\ started = {}
  /\ wait_pending = FALSE
  /\ lock = "free"
  /\ at = [t \in Threads |-> "user"]
  /\ handling = {}
  /\ closing = NotClosing

-----------------------------------------------------------------------------
(* The beginning of alarm_ioctl: the first file to use the device for more *)
(* than the time owns it, the others get -EBUSY; so does everyone while    *)
(* the owner's file is being closed.                                       *)
Claim(t) ==
  /\ at[t] = "user"
  /\ owner \in {NoFile, File[t]}
  /\ closing = NotClosing
  /\ owner' = File[t]

(* The time to set cannot be copied from user space.                       *)
SetFaults(t) ==
  /\ Claim(t)
  /\ UNCHANGED <<alarm_pending, alarm_enabled, wait_pending, started, lock, at,
                 handling, closing>>

(* Mutant: a wait that was handed over is not looked at. *)
ClearUnlocks(t, a) ==
  /\ Claim(t)
  /\ started' = started \ {a}
  /\ alarm_enabled' = alarm_enabled \ {a}
  /\ alarm_pending' = alarm_pending \ {a}
  /\ lock' = IF alarm_pending # {} /\ alarm_pending \ {a} = {}
               THEN "free" ELSE lock
  /\ UNCHANGED <<wait_pending, at, handling, closing>>

ALARM_CLEAR(t, a) ==
  /\ Claim(t)
  /\ started' = started \ {a}
  /\ alarm_enabled' = alarm_enabled \ {a}
  /\ alarm_pending' = alarm_pending \ {a}
  /\ lock' = IF alarm_pending # {} /\ alarm_pending \ {a} = {}
                  /\ ~ wait_pending
               THEN "free" ELSE lock
  /\ UNCHANGED <<wait_pending, at, handling, closing>>

(* With or without the wait that follows.                                  *)
ALARM_SET(t, a, wait) ==
  /\ Claim(t)
  /\ alarm_enabled' = alarm_enabled \cup {a}
  /\ started' = started \cup {a}
  /\ at' = [at EXCEPT ![t] = IF wait THEN "wait" ELSE "user"]
  /\ UNCHANGED <<alarm_pending, wait_pending, lock, handling, closing>>

ALARM_WAIT(t) ==
  /\ Claim(t)
  /\ at' = [at EXCEPT ![t] = "wait"]
  /\ UNCHANGED <<alarm_pending, alarm_enabled, wait_pending, started, lock,
                 handling, closing>>

(* Mutant: coming back to wait always releases the lock. *)
AckPending(t) ==
  /\ at[t] = "wait"
  /\ IF wait_pending
       THEN lock' = "free" /\ wait_pending' = FALSE
       ELSE UNCHANGED <<lock, wait_pending>>
  /\ at' = [at EXCEPT ![t] = "waiting"]
  /\ handling' = handling \ {t}
  /\ UNCHANGED <<owner, alarm_pending, alarm_enabled, started, closing>>

(* The last alarm is acknowledged, unless the next is there already.       *)
Acknowledge(t) ==
  /\ at[t] = "wait"
  /\ IF alarm_pending = {} /\ wait_pending
       THEN lock' = "free" /\ wait_pending' = FALSE
       ELSE UNCHANGED <<lock, wait_pending>>
  /\ at' = [at EXCEPT ![t] = "waiting"]
  /\ handling' = handling \ {t}
  /\ UNCHANGED <<owner, alarm_pending, alarm_enabled, started, closing>>

(* wait_event_interruptible ends, with an alarm or with a signal.          *)
WaitEnds(t) ==
  /\ at[t] = "waiting"
  /\ at' = [at EXCEPT ![t] = IF alarm_pending # {} THEN "collect" ELSE "user"]
  /\ UNCHANGED <<owner, alarm_pending, alarm_enabled, wait_pending, started,
                 lock, handling, closing>>

Collect(t) ==
  /\ at[t] = "collect"
  /\ handling' = IF alarm_pending \cap Types # {} THEN handling \cup {t}
                                                  ELSE handling
  /\ wait_pending' = TRUE
  /\ alarm_pending' = {}
  /\ at' = [at EXCEPT ![t] = "user"]
  /\ UNCHANGED <<owner, alarm_enabled, started, lock, closing>>

(* After alarm_set_rtc; any file may.                                      *)
ALARM_SET_RTC(t) ==
  /\ at[t] = "user"
  /\ alarm_pending' = alarm_pending \cup {TIME_CHANGE}
  /\ UNCHANGED <<owner, alarm_enabled, wait_pending, started, lock, at,
                 handling, closing>>

alarm_triggered(a) ==
  /\ a \in started
  /\ started' = started \ {a}
  /\ IF a \in alarm_enabled
       THEN /\ lock' = "held"
            /\ alarm_enabled' = alarm_enabled \ {a}
            /\ alarm_pending' = alarm_pending \cup {a}
       ELSE UNCHANGED <<lock, alarm_enabled, alarm_pending>>
  /\ UNCHANGED <<owner, wait_pending, at, handling, closing>>

(* The five seconds are over.                                              *)
LockExpires ==
  /\ lock = "held"
  /\ lock' = "expired"
  /\ UNCHANGED <<owner, alarm_pending, alarm_enabled, wait_pending, started,
                 at, handling, closing>>

-----------------------------------------------------------------------------
(* alarm_release of the owner's file, which no thread is using: the alarms *)
(* are disabled and cancelled one after the other.                         *)

BeginRelease ==
  /\ owner # NoFile /\ closing = NotClosing
  /\ \A t \in Threads : File[t] = owner => at[t] = "user"
  /\ closing' = 0
  /\ handling' = {t \in handling : File[t] # owner}
  /\ UNCHANGED <<owner, alarm_pending, alarm_enabled, wait_pending, started,
                 lock, at>>

ReleaseAlarm ==
  /\ closing \in Types
  /\ alarm_enabled' = alarm_enabled \ {closing}
  /\ started' = started \ {closing}
  /\ closing' = closing + 1
  /\ UNCHANGED <<owner, alarm_pending, wait_pending, lock, at, handling>>

(* Mutant: only a pending alarm is looked at. *)
ReleasePending ==
  /\ closing = TypeCount
  /\ IF alarm_pending # {}
       THEN lock' = "free" /\ wait_pending' = FALSE /\ alarm_pending' = {}
       ELSE UNCHANGED <<lock, wait_pending, alarm_pending>>
  /\ owner' = NoFile
  /\ closing' = NotClosing
  /\ UNCHANGED <<alarm_enabled, started, at, handling>>

alarm_release ==
  /\ closing = TypeCount
  /\ IF alarm_pending # {} \/ wait_pending
       THEN lock' = "free" /\ wait_pending' = FALSE /\ alarm_pending' = {}
       ELSE UNCHANGED <<lock, wait_pending, alarm_pending>>
  /\ owner' = NoFile
  /\ closing' = NotClosing
  /\ UNCHANGED <<alarm_enabled, started, at, handling>>

-----------------------------------------------------------------------------
DevNext ==
  \/ \E t \in Threads :
       \/ \E a \in Types : ALARM_CLEAR(t, a) \/ ALARM_SET(t, a, FALSE)
       \/ SetFaults(t) \/ ALARM_SET_RTC(t)
  \/ \E t \in Waiters :
       \/ \E a \in Types : ALARM_SET(t, a, TRUE)
       \/ ALARM_WAIT(t) \/ Acknowledge(t) \/ WaitEnds(t) \/ Collect(t)
  \/ \E a \in Types : alarm_triggered(a)
  \/ LockExpires
  \/ BeginRelease \/ ReleaseAlarm \/ alarm_release

DevSpec == alarm_dev_init /\ [][DevNext]_devVars

-----------------------------------------------------------------------------
(* The device does not go back to sleep under an alarm nobody has seen:    *)
(* while one is pending the lock ends by its timeout only.                 *)
PendingLocked == alarm_pending \cap Types # {} => lock # "free"

(* "Ack last alarm and wait for next" (android_alarm.h): the lock is the   *)
(* waiting thread's from the alarm it was given until it comes back to     *)
(* wait, whatever other threads set, clear or do to the clock meanwhile.   *)
HandedOver == handling # {} => lock # "free" /\ wait_pending

(* A closed device leaves no alarm that could go off, no lock held and no  *)
(* acknowledgement open for the next owner.                                *)
ClosedClean ==
  owner = NoFile =>
    /\ started = {} /\ alarm_enabled = {}
    /\ lock # "held" /\ ~ wait_pending
=============================================================================
