---------------------------- MODULE EarlySuspend ----------------------------
(***************************************************************************)
(* Early suspend and late resume (kernel/power/earlysuspend.c): the user   *)
(* visible sleep state.  A write of "mem" or "on" to /sys/power/state      *)
(* flips SUSPEND_REQUESTED and queues a work item; the worker calls the    *)
(* handlers, flips SUSPENDED and, once both bits are set, releases the     *)
(* main wake lock.                                                         *)
(*                                                                         *)
(* The mutex early_suspend_lock is held by the worker exactly at the       *)
(* labels call_suspend and call_resume; registration takes it for one      *)
(* step.  The spinlock state_lock makes each reading and writing of state  *)
(* one step.  A handler without a suspend or resume hook counts as one     *)
(* whose hook does nothing.                                                *)
(***************************************************************************)
EXTENDS SystemSuspend

CONSTANTS
  Handlers,   \* every struct early_suspend
  Level       \* handler -> its level

ASSUME LevelAssumption == Level \in [Handlers -> Nat]

VARIABLES
  state,      \* the bits SUSPEND_REQUESTED and SUSPENDED
  handlers,   \* the list early_suspend_handlers
  pos,        \* the worker's position in the list
  off         \* the handlers whose suspend hook was the last one called

earlyVars == <<state, handlers, pos, off>>

REQUESTED == "SUSPEND_REQUESTED"
SUSPENDED == "SUSPENDED"
REQUESTED_AND_SUSPENDED == {REQUESTED, SUSPENDED}

EarlyLabels == {"early_suspend", "call_suspend", "early_unlock",
                "late_resume", "call_resume"}

Registered == Range(handlers)

EarlySuspendTypeOK ==
  /\ state \subseteq REQUESTED_AND_SUSPENDED
  /\ handlers \in Seq(Handlers)
  /\ pos \in 0 .. Len(handlers) + 1
  /\ off \subseteq Registered

EarlySuspendInit ==
  /\ state = {}
  /\ handlers = << >>
  /\ pos = 0
  /\ off = {}

MutexFree == pc \notin {"call_suspend", "call_resume"}

-----------------------------------------------------------------------------
(* register_early_suspend puts the handler before the first one of a       *)
(* higher level, and calls its suspend hook if the others' were called.    *)

(* Mutant: list_add_tail without looking for the place. *)
RegisterLast(h) == Len(handlers) + 1

RegisterAt(h) ==
  CHOOSE p \in 1 .. Len(handlers) + 1 :
    /\ \A i \in 1 .. p - 1 : Level[handlers[i]] <= Level[h]
    /\ p <= Len(handlers) => Level[handlers[p]] > Level[h]

(* Mutant: a handler registered while suspended is not called. *)
NotSuspendedLate(h) == off

SuspendIfLate(h) == IF SUSPENDED \in state THEN off \cup {h} ELSE off

register_early_suspend(h) ==
  LET p == RegisterAt(h) IN
  /\ MutexFree
  /\ h \notin Registered
  /\ handlers' = [i \in 1 .. Len(handlers) + 1 |->
                    IF i < p THEN handlers[i]
                    ELSE IF i = p THEN h ELSE handlers[i - 1]]
  /\ off' = SuspendIfLate(h)
  /\ UNCHANGED <<state, pos>>

unregister_early_suspend(h) ==
  /\ MutexFree
  /\ \E p \in 1 .. Len(handlers) :
       /\ handlers[p] = h
       /\ handlers' = [i \in 1 .. Len(handlers) - 1 |->
                         IF i < p THEN handlers[i] ELSE handlers[i + 1]]
  /\ off' = off \ {h}
  /\ UNCHANGED <<state, pos>>

-----------------------------------------------------------------------------
(* early_suspend(), run by the worker *)

(* Mutant: a request that changes nothing ends the work at once. *)
EarlySuspendAborts ==
  /\ pc = "early_suspend"
  /\ IF state = {REQUESTED}
     THEN state' = REQUESTED_AND_SUSPENDED /\ pc' = "call_suspend" /\ pos' = 1
     ELSE pc' = "idle" /\ UNCHANGED <<state, pos>>
  /\ UNCHANGED <<wlVars, worklist, suspendVars, handlers, off>>

StartEarlySuspend ==
  /\ pc = "early_suspend"
  /\ IF state = {REQUESTED}
     THEN state' = REQUESTED_AND_SUSPENDED /\ pc' = "call_suspend" /\ pos' = 1
     ELSE pc' = "early_unlock" /\ UNCHANGED <<state, pos>>
  /\ UNCHANGED <<wlVars, worklist, suspendVars, handlers, off>>

CallSuspend ==
  /\ pc = "call_suspend"
  /\ IF pos <= Len(handlers)
     THEN off' = off \cup {handlers[pos]} /\ pos' = pos + 1 /\ UNCHANGED pc
     ELSE pc' = "early_unlock" /\ pos' = 0 /\ UNCHANGED off
  /\ UNCHANGED <<wlVars, worklist, suspendVars, state, handlers>>

(* Mutant: state is not read again after the handlers were called. *)
EarlyUnlockUnchecked ==
  /\ Goto("early_unlock", "idle")
  /\ wake_unlock(MainLock)
  /\ UNCHANGED <<suspendVars, earlyVars>>

(* The user may have asked for "on" while the handlers were called. *)
EarlyUnlock ==
  /\ Goto("early_unlock", "idle")
  /\ IF state = REQUESTED_AND_SUSPENDED
     THEN wake_unlock(MainLock)
     ELSE UNCHANGED <<wlVars, worklist>>
  /\ UNCHANGED <<suspendVars, earlyVars>>

early_suspend == StartEarlySuspend \/ CallSuspend \/ EarlyUnlock

-----------------------------------------------------------------------------
(* late_resume(), run by the worker *)

StartLateResume ==
  /\ pc = "late_resume"
  /\ IF state = {SUSPENDED}
     THEN state' = {} /\ pc' = "call_resume" /\ pos' = Len(handlers)
     ELSE pc' = "idle" /\ UNCHANGED <<state, pos>>
  /\ UNCHANGED <<wlVars, worklist, suspendVars, handlers, off>>

CallResume ==
  /\ pc = "call_resume"
  /\ IF pos > 0
     THEN off' = off \ {handlers[pos]} /\ pos' = pos - 1 /\ UNCHANGED pc
     ELSE pc' = "idle" /\ UNCHANGED <<off, pos>>
  /\ UNCHANGED <<wlVars, worklist, suspendVars, state, handlers>>

late_resume == StartLateResume \/ CallResume

-----------------------------------------------------------------------------
(* A write to /sys/power/state.  state_store accepts "on" and, since the   *)
(* board's suspend_ops are valid for mem only, "mem".                      *)
request_suspend_state(new_state) ==
  /\ IF REQUESTED \notin state /\ new_state # "on"
     THEN /\ state' = state \cup {REQUESTED}
          /\ worklist' = queue_work(worklist, "early_suspend")
          /\ UNCHANGED wlVars
     ELSE IF REQUESTED \in state /\ new_state = "on"
     THEN /\ state' = state \ {REQUESTED}
          /\ wake_lock(MainLock)
          /\ worklist' = queue_work(worklist, "late_resume")
     ELSE UNCHANGED <<state, worklist, wlVars>>
  /\ requested_suspend_state' = new_state
  /\ UNCHANGED <<pc, ret, g_wkup_wkst, handlers, pos, off>>

state_store == \E new_state \in {"on", "mem"} : request_suspend_state(new_state)
=============================================================================
